---- MODULE Spec2Model ----
(***************************************************************************)
(* Model of the jbmdb migration engines (postgres, mysql, cql): migration  *)
(* file loading, the ledger table "migrations", Migrate, RollbackLast,     *)
(* RollbackSteps, MigrateFresh, ListMigrations, CreateMigration, and the   *)
(* command line: main, the handlers of the three database types and        *)
(* validateMigrationName.                                                  *)
(*                                                                         *)
(* Text is modelled as sequences of one-character strings, so that file    *)
(* name parsing and formatting are computed as the code computes them.     *)
(* A version (int64 in the code) is a record [neg, mag] with mag its       *)
(* decimal digits without leading zeros.                                   *)
(***************************************************************************)
EXTENDS Integers, Sequences, FiniteSets, TLC

\* ------------------------------------------------------------------------
\* Text helpers (Go strings / path/filepath)
\* ------------------------------------------------------------------------

DigitChars == <<"0", "1", "2", "3", "4", "5", "6", "7", "8", "9">>

IsDigit(c) == \E i \in 1..10 : DigitChars[i] = c

DigitVal(c) == CHOOSE i \in 0..9 : DigitChars[i + 1] = c

\* s[from:] and s[:to] of Go, on sequences (0-based bounds as in Go)
SliceFrom(s, from) == SubSeq(s, from + 1, Len(s))

SliceTo(s, to) == SubSeq(s, 1, to)

HasSuffix(s, suf) ==
    /\ Len(s) >= Len(suf)
    /\ SubSeq(s, Len(s) - Len(suf) + 1, Len(s)) = suf

HasPrefix(s, pre) ==
    /\ Len(s) >= Len(pre)
    /\ SubSeq(s, 1, Len(pre)) = pre

TrimSuffix(s, suf) ==
    IF HasSuffix(s, suf) THEN SubSeq(s, 1, Len(s) - Len(suf)) ELSE s

TrimPrefix(s, pre) ==
    IF HasPrefix(s, pre) THEN SubSeq(s, Len(pre) + 1, Len(s)) ELSE s

UpperChars == <<"A", "B", "C", "D", "E", "F", "G", "H", "I", "J", "K", "L", "M", "N", "O", "P", "Q", "R", "S", "T", "U", "V", "W", "X", "Y", "Z">>

LowerChars == <<"a", "b", "c", "d", "e", "f", "g", "h", "i", "j", "k", "l", "m", "n", "o", "p", "q", "r", "s", "t", "u", "v", "w", "x", "y", "z">>

\* unicode.IsUpper, on the letters A to Z
IsUpper(c) == \E i \in 1..Len(UpperChars) : UpperChars[i] = c

\* unicode.ToLower
LowerChar(c) ==
    IF IsUpper(c) THEN LowerChars[CHOOSE i \in 1..Len(UpperChars) : UpperChars[i] = c]
    ELSE c

\* strings.ToLower
ToLowerText(s) == [i \in 1..Len(s) |-> LowerChar(s[i])]

\* strings.EqualFold
EqualFold(s, t) == ToLowerText(s) = ToLowerText(t)

\* the string of a text
RECURSIVE Str(_)
Str(s) == IF s = <<>> THEN "" ELSE Head(s) \o Str(Tail(s))

\* strings.Split(s, sep) for a one-character separator
RECURSIVE SplitAcc(_, _, _, _)
SplitAcc(s, sep, cur, acc) ==
    IF s = <<>> THEN Append(acc, cur)
    ELSE IF Head(s) = sep THEN SplitAcc(Tail(s), sep, <<>>, Append(acc, cur))
    ELSE SplitAcc(Tail(s), sep, Append(cur, Head(s)), acc)

Split(s, sep) == SplitAcc(s, sep, <<>>, <<>>)

\* strings.Join(parts, sep)
RECURSIVE Join(_, _)
Join(parts, sep) ==
    IF parts = <<>> THEN <<>>
    ELSE IF Len(parts) = 1 THEN parts[1]
    ELSE parts[1] \o <<sep>> \o Join(Tail(parts), sep)

\* filepath.Ext: the suffix beginning at the final dot, empty if no dot
RECURSIVE Ext(_)
Ext(s) ==
    IF s = <<>> THEN <<>>
    ELSE IF \E i \in 1..Len(s) : s[i] = "."
         THEN LET i == CHOOSE k \in 1..Len(s) :
                            s[k] = "." /\ \A j \in (k + 1)..Len(s) : s[j] # "."
              IN SubSeq(s, i, Len(s))
         ELSE <<>>

\* ------------------------------------------------------------------------
\* Versions: int64 values as sign and decimal magnitude
\* ------------------------------------------------------------------------

VZero == [neg |-> FALSE, mag |-> <<"0">>]

RECURSIVE StripZeros(_)
StripZeros(ds) ==
    IF Len(ds) > 1 /\ Head(ds) = "0" THEN StripZeros(Tail(ds)) ELSE ds

\* the longest prefix of digits of s
RECURSIVE DigitPrefix(_)
DigitPrefix(s) ==
    IF s # <<>> /\ IsDigit(Head(s)) THEN <<Head(s)>> \o DigitPrefix(Tail(s))
    ELSE <<>>

\* magnitude comparison of two digit sequences without leading zeros
RECURSIVE MagLess(_, _)
MagLess(a, b) ==
    IF Len(a) # Len(b) THEN Len(a) < Len(b)
    ELSE IF a = <<>> THEN FALSE
    ELSE IF Head(a) # Head(b) THEN DigitVal(Head(a)) < DigitVal(Head(b))
    ELSE MagLess(Tail(a), Tail(b))

\* v < w on int64 values
VLess(v, w) ==
    IF v.neg /\ ~w.neg THEN TRUE
    ELSE IF ~v.neg /\ w.neg THEN FALSE
    ELSE IF v.neg THEN MagLess(w.mag, v.mag)
    ELSE MagLess(v.mag, w.mag)

\* fmt.Sscanf(s, "%d", &result): optional sign, then decimal digits; the
\* result stays 0 when no digit follows
parseInt(s) ==
    LET signed == s # <<>> /\ Head(s) \in {"+", "-"}
        body   == IF signed THEN Tail(s) ELSE s
        ds     == DigitPrefix(body)
        mag    == StripZeros(ds)
    IN IF ds = <<>> THEN VZero
       ELSE [neg |-> signed /\ Head(s) = "-" /\ mag # <<"0">>, mag |-> mag]

\* fmt.Sprintf("%d", v)
FormatInt(v) == IF v.neg THEN <<"-">> \o v.mag ELSE v.mag

\* ------------------------------------------------------------------------
\* Migration files
\* ------------------------------------------------------------------------

Backends == {"postgres", "mysql", "cql"}

\* the engines of postgres and mysql run each migration in a transaction,
\* the cql engine has no transaction
Transactional(b) == b \in {"postgres", "mysql"}

\* the file extension each engine loads
DotExt(b) == IF b = "cql" THEN <<".", "c", "q", "l">> ELSE <<".", "s", "q", "l">>

\* A script is the sequence of its ";"-separated segments. A segment is a
\* statement or Blank (white space only, as after the last ";").
\* cased: the statement text contains upper-case characters.
Blank == [op |-> "blank", tbl |-> "", cased |-> FALSE]

Create(t) == [op |-> "create", tbl |-> t, cased |-> TRUE]

Drop(t) == [op |-> "drop", tbl |-> t, cased |-> TRUE]

\* strings.ToLower on a statement
ToLower(stmt) == [stmt EXCEPT !.cased = FALSE]

\* the non-empty statements of a script: strings.Split(script, ";"), then
\* strings.TrimSpace and the skip of empty segments
Statements(script) == SelectSeq(script, LAMBDA seg : seg # Blank)

\* A file: its name, and its content as the number of "-- Up Migration" and
\* "-- Down Migration" markers with the scripts after the first of each.
MigFile(tok, name, b, up, down) ==
    [fname |-> tok \o <<"_">> \o name \o DotExt(b),
     upMarkers |-> 1, downMarkers |-> 1, up |-> up, down |-> down]

\* a 14-digit time stamp as CreateMigration writes it, ending in digit d
Stamp(d) == <<"2", "0", "2", "4", "0", "1", "0", "1", "0", "0", "0", "0", "0">> \o <<d>>

Catalogue(b) ==
    { MigFile(Stamp("1"), <<"u", "s", "e", "r", "s">>, b,
              <<Create("users"), Blank>>, <<Drop("users"), Blank>>),
      MigFile(Stamp("2"), <<"p", "o", "s", "t", "_", "t", "a", "g", "s">>, b,
              <<Create("posts"), Create("tags"), Create("post_tags"), Blank>>,
              <<Drop("post_tags"), Drop("tags"), Drop("posts"), Blank>>),
      MigFile(Stamp("3"), <<"l", "o", "g", "s">>, b,
              <<Create("logs"), Blank>>, <<Drop("logs"), Blank>>) }

\* A directory in which files go missing and files are malformed: two
\* well-formed files, one with no down marker, one with two. The second
\* well-formed file creates a table whose name starts with "system_".
StoreCatalogue(b) ==
    { MigFile(Stamp("1"), <<"u", "s", "e", "r", "s">>, b,
              <<Create("users"), Blank>>, <<Drop("users"), Blank>>),
      [MigFile(Stamp("2"), <<"o", "r", "d", "e", "r", "s">>, b,
               <<Create("orders"), Blank>>, <<>>) EXCEPT !.downMarkers = 0],
      MigFile(Stamp("3"), <<"s", "y", "s", "t", "e", "m", "_", "l", "o", "g", "s">>, b,
              <<Create("system_logs"), Blank>>, <<Drop("system_logs"), Blank>>),
      [MigFile(Stamp("4"), <<"i", "t", "e", "m", "s">>, b,
               <<Create("items"), Blank>>, <<Drop("items"), Blank>>)
          EXCEPT !.downMarkers = 2] }

\* a 14-character leading token that ends in digit d after zeros
Zeros(first, d) ==
    <<first>> \o <<"0", "0", "0", "0", "0", "0", "0", "0", "0", "0", "0", "0">> \o <<d>>

\* A directory of hand-named files, each well-formed inside: a leading
\* token with leading zeros (version 7), a second file with the same token
\* (version 7 again), a token that starts with a letter (no digits to
\* scan: version 0), and a time stamp.
OddCatalogue(b) ==
    { MigFile(Zeros("0", "7"), <<"u", "s", "e", "r", "s">>, b,
              <<Create("users"), Blank>>, <<Drop("users"), Blank>>),
      MigFile(Zeros("0", "7"), <<"i", "t", "e", "m", "s">>, b,
              <<Create("items"), Blank>>, <<Drop("items"), Blank>>),
      MigFile(Zeros("v", "2"), <<"o", "r", "d", "e", "r", "s">>, b,
              <<Create("orders"), Blank>>, <<Drop("orders"), Blank>>),
      MigFile(Stamp("3"), <<"l", "o", "g", "s">>, b,
              <<Create("logs"), Blank>>, <<Drop("logs"), Blank>>) }

\* every file of the model
AllFiles(b) == Catalogue(b) \cup StoreCatalogue(b) \cup OddCatalogue(b)

\* all sequences that hold each element of S once
RECURSIVE Perms(_)
Perms(S) ==
    IF S = {} THEN {<<>>}
    ELSE UNION { {<<x>> \o p : p \in Perms(S \ {x})} : x \in S }

Range(s) == {s[i] : i \in 1..Len(s)}

\* the zero value of the Migration struct
NoMig == [Version |-> VZero, Name |-> <<>>, Up |-> <<>>, Down |-> <<>>, fname |-> <<>>]

\* One directory entry as the postgres and cql engines parse it. kind is
\* "skip" (not loaded), "parse" (invalid migration format) or "ok".
parseFileSplit(b, f) ==
    LET parts == Split(f.fname, "_")
    IN IF Ext(f.fname) # DotExt(b) \/ Len(parts) < 2 THEN [kind |-> "skip", mig |-> NoMig]
       ELSE IF f.downMarkers # 1 THEN [kind |-> "parse", mig |-> NoMig]
       ELSE [kind |-> "ok",
             mig |-> [Version |-> parseInt(parts[1]),
                      Name |-> TrimSuffix(Join(Tail(parts), "_"), Ext(f.fname)),
                      Up |-> f.up, Down |-> f.down, fname |-> f.fname]]

\* One directory entry as the mysql engine parses it: fixed-width slices of
\* the file name; "panic" is a slice or index out of range.
TokWidth == 14

parseFileFixed(b, f) ==
    IF ~HasSuffix(f.fname, DotExt(b)) THEN [kind |-> "skip", mig |-> NoMig]
    ELSE IF Len(f.fname) < TokWidth + 1 THEN [kind |-> "panic", mig |-> NoMig]
    ELSE IF f.downMarkers # 1 THEN [kind |-> "parse", mig |-> NoMig]
    ELSE IF f.upMarkers < 1 THEN [kind |-> "panic", mig |-> NoMig]
    ELSE [kind |-> "ok",
          mig |-> [Version |-> parseInt(SliceTo(f.fname, TokWidth)),
                   Name |-> TrimSuffix(SliceFrom(f.fname, TokWidth + 1), DotExt(b)),
                   Up |-> f.up, Down |-> f.down, fname |-> f.fname]]

\* a parse that passes over a file with a wrong number of down markers
parseFileLenient(b, f) ==
    LET p == IF b = "mysql" THEN parseFileFixed(b, f) ELSE parseFileSplit(b, f)
    IN IF p.kind = "parse" THEN [kind |-> "skip", mig |-> NoMig] ELSE p

parseFile(b, f) == IF b = "mysql" THEN parseFileFixed(b, f) ELSE parseFileSplit(b, f)

\* a load that leaves the migrations in the order of the directory listing
Unsorted(migs) == Perms(migs)

\* sort.Slice(migrations, Version ascending): sort.Slice is not stable, so
\* every ascending arrangement is a possible result
SortAscending(migs) ==
    { s \in Perms(migs) :
        \A i, j \in 1..Len(s) : i < j => ~VLess(s[j].Version, s[i].Version) }

\* loadMigrations: the possible results [err, migs] for the directory dir.
\* The first failing entry of the listing ends the load with its error.
loadMigrations(b, dir) ==
    LET parsed == {parseFile(b, f) : f \in dir}
        bad    == {p.kind : p \in {q \in parsed : q.kind \in {"parse", "panic"}}}
        good   == {p.mig : p \in {q \in parsed : q.kind = "ok"}}
    IN IF bad # {} THEN {[err |-> k, migs |-> <<>>] : k \in bad}
       ELSE {[err |-> "ok", migs |-> s] : s \in SortAscending(good)}

\* ------------------------------------------------------------------------
\* The database as one run sees it
\* ------------------------------------------------------------------------
\* A world w is the database state threaded through one run of an engine
\* function: the ledger table "migrations" (ledgerExists, ledger rows in
\* insertion order), the user tables (schema), the number of database calls
\* made so far (calls), the error returned (err, "ok" for nil) and the
\* record of what the run did and printed (log).
\* upDone is history: the files whose up-script has been executed completely
\* and has not been reversed since.
\* failAt is the number of the database call that fails in this run (0 or a
\* number beyond the last call: none fails).

Step(w) == [w EXCEPT !.calls = @ + 1]

Hit(w, failAt) == w.calls + 1 = failAt

Fail(w, kind) == [w EXCEPT !.err = kind]

Ev(ev, ver, dir, stmts, ok) ==
    [ev |-> ev, ver |-> ver, dir |-> dir, stmts |-> stmts, ok |-> ok]

Logged(w, e) == [w EXCEPT !.log = Append(@, e)]

\* what one statement does to the user tables (CREATE TABLE IF NOT EXISTS,
\* DROP TABLE IF EXISTS)
ExecEffect(schema, stmt) ==
    IF stmt.op = "create" THEN schema \cup {stmt.tbl}
    ELSE IF stmt.op = "drop" THEN schema \ {stmt.tbl}
    ELSE schema

RECURSIVE ExecEffects(_, _)
ExecEffects(schema, stmts) ==
    IF stmts = <<>> THEN schema
    ELSE ExecEffects(ExecEffect(schema, Head(stmts)), Tail(stmts))

HasVersion(ledger, v) == \E i \in 1..Len(ledger) : ledger[i].version = v

\* a DELETE that takes the rows of every version up to v
DeleteUpTo(ledger, v) == SelectSeq(ledger, LAMBDA row : VLess(v, row.version))

\* DELETE FROM migrations WHERE version = v
DeleteVersion(ledger, v) == SelectSeq(ledger, LAMBDA row : row.version # v)

\* CREATE TABLE IF NOT EXISTS migrations
createMigrationsTable(w, failAt) ==
    IF Hit(w, failAt) THEN Fail(Step(w), "ledger")
    ELSE [Step(w) EXCEPT !.ledgerExists = TRUE]

\* the loop over the statements of a script, one Exec each; the first
\* failing Exec ends it
RECURSIVE execStatements(_, _, _, _, _)
execStatements(w, failAt, stmts, ver, dir) ==
    IF stmts = <<>> THEN w
    ELSE IF Hit(w, failAt)
         THEN Fail(Logged(Step(w), Ev("exec", ver, dir, <<Head(stmts)>>, FALSE)), "exec")
    ELSE execStatements(
             [Logged(Step(w), Ev("exec", ver, dir, <<Head(stmts)>>, TRUE))
                 EXCEPT !.schema = ExecEffect(@, Head(stmts))],
             failAt, Tail(stmts), ver, dir)

\* tx.Exec(lowercaseSQL): the postgres engine sends the whole lower-cased
\* up-script in one Exec
execScript(w, failAt, script, ver, dir) ==
    LET sent == [i \in 1..Len(Statements(script)) |-> ToLower(Statements(script)[i])]
    IN IF Hit(w, failAt)
       THEN Fail(Logged(Step(w), Ev("exec", ver, dir, sent, FALSE)), "exec")
       ELSE [Logged(Step(w), Ev("exec", ver, dir, sent, TRUE))
                EXCEPT !.schema = ExecEffects(@, sent)]

\* INSERT INTO migrations (version, name): postgres has no key on version,
\* mysql rejects a second row of a version, cql overwrites it
insertLedger(b, w, failAt, m) ==
    LET row == [version |-> m.Version, name |-> m.Name]
    IN IF Hit(w, failAt) \/ ~w.ledgerExists
          \/ (b = "mysql" /\ HasVersion(w.ledger, m.Version))
       THEN Fail(Logged(Step(w), Ev("insert", m.Version, "up", <<>>, FALSE)), "ledger")
       ELSE [Logged(Step(w), Ev("insert", m.Version, "up", <<>>, TRUE))
                EXCEPT !.ledger = IF b = "cql"
                                  THEN Append(DeleteVersion(@, m.Version), row)
                                  ELSE Append(@, row)]

deleteLedger(w, failAt, m) ==
    IF Hit(w, failAt) \/ ~w.ledgerExists
    THEN Fail(Logged(Step(w), Ev("delete", m.Version, "down", <<>>, FALSE)), "ledger")
    ELSE [Logged(Step(w), Ev("delete", m.Version, "down", <<>>, TRUE))
             EXCEPT !.ledger = DeleteVersion(@, m.Version)]

\* db.Begin: the transaction works on its own copy of the database
begin(w, failAt) ==
    IF Hit(w, failAt) THEN Fail(Step(w), "tx") ELSE Step(w)

\* tx.Commit; a failed commit publishes nothing
commit(w, failAt) ==
    IF Hit(w, failAt) THEN Fail(Step(w), "tx") ELSE Step(w)

\* a transaction end without the deferred rollback: what was done stays
endTxKeep(w0, t) == t

\* the end of a transaction that started in world w0 and reached world t:
\* commit publishes t, the deferred tx.Rollback of a failed run restores the
\* tables of w0 (calls, log and error are the run's, not the database's)
endTx(w0, t) ==
    IF t.err = "ok" THEN t
    ELSE [t EXCEPT !.schema = w0.schema, !.ledger = w0.ledger,
                   !.ledgerExists = w0.ledgerExists, !.upDone = w0.upDone]

\* continue with F(w) unless the run has failed
Then(w, F(_)) == IF w.err = "ok" THEN F(w) ELSE w

\* ------------------------------------------------------------------------
\* Applier
\* ------------------------------------------------------------------------

\* isMigrationApplied: one query on the ledger table
isAppliedFails(w, failAt) == Hit(w, failAt) \/ ~w.ledgerExists

\* the up-script has been executed completely: history only
MarkUp(w, m) == [w EXCEPT !.upDone = @ \cup {m.fname}]

MarkDown(w, m) == [w EXCEPT !.upDone = @ \ {m.fname}]

\* the words of the error applyMigration returns when a statement of the
\* up-script fails; %d_%s is the version and name, %w the driver's error.
\* postgres and cql wrap the error in the same format, mysql returns it as
\* it is
applyErrorf(b) ==
    IF b = "mysql" THEN <<"%w">>
    ELSE <<"failed", "to", "apply", "migration", "%d_%s:", "%w">>

\* postgres applyMigration: check, then Begin, one Exec of the lower-cased
\* script, INSERT, Commit
applyMigrationPg(w, failAt, m) ==
    LET w1 == Step(w)
        t1 == Logged(begin(w1, failAt), Ev("migrating", m.Version, "up", <<>>, TRUE))
        t2 == execScript(t1, failAt, m.Up, m.Version, "up")
        t3 == Then(t2, LAMBDA t : insertLedger("postgres", t, failAt, m))
        t4 == Then(t3, LAMBDA t : commit(t, failAt))
    IN IF isAppliedFails(w, failAt) THEN Fail(w1, "ledger")
       ELSE IF HasVersion(w.ledger, m.Version)
            THEN Logged(w1, Ev("skipped", m.Version, "up", <<>>, TRUE))
       ELSE IF begin(w1, failAt).err # "ok" THEN begin(w1, failAt)
       ELSE endTx(w1, Then(t4, LAMBDA t :
                Logged(MarkUp(t, m), Ev("done", m.Version, "up", <<>>, TRUE))))

\* an apply on mysql that runs its statements outside any transaction
applyMigrationMyNoTx(w, failAt, m) ==
    LET t2 == execStatements(Step(w), failAt, Statements(m.Up), m.Version, "up")
        t3 == Then(t2, LAMBDA t : insertLedger("mysql", t, failAt, m))
    IN Then(t3, LAMBDA t : MarkUp(t, m))

\* mysql applyMigration: BeginTx, one Exec per statement, INSERT, Commit
applyMigrationMy(w, failAt, m) ==
    LET t0 == begin(w, failAt)
        t2 == Then(t0, LAMBDA t : execStatements(t, failAt, Statements(m.Up), m.Version, "up"))
        t3 == Then(t2, LAMBDA t : insertLedger("mysql", t, failAt, m))
        t4 == Then(t3, LAMBDA t : commit(t, failAt))
    IN endTx(w, Then(t4, LAMBDA t : MarkUp(t, m)))

\* an apply on cql that goes on to the next statement after a failed one
\* and records the version all the same
applyMigrationCqlGoOn(w, failAt, m) ==
    LET stmts == Statements(m.Up)
        first == execStatements(Logged(Step(w), Ev("migrating", m.Version, "up", <<>>, TRUE)),
                                failAt, stmts, m.Version, "up")
        done  == Len(SelectSeq(first.log, LAMBDA e : e.ev = "exec" /\ e.ver = m.Version))
        rest  == execStatements([first EXCEPT !.err = "ok"], failAt,
                                SubSeq(stmts, done + 1, Len(stmts)), m.Version, "up")
        t3    == insertLedger("cql", [rest EXCEPT !.err = "ok"], failAt, m)
    IN IF isAppliedFails(w, failAt) THEN Fail(Step(w), "ledger")
       ELSE IF HasVersion(w.ledger, m.Version)
            THEN Logged(Step(w), Ev("skipped", m.Version, "up", <<>>, TRUE))
       ELSE IF first.err = "ok"
            THEN Then(Then(MarkUp(first, m), LAMBDA t : insertLedger("cql", t, failAt, m)),
                      LAMBDA t : Logged(t, Ev("done", m.Version, "up", <<>>, TRUE)))
       ELSE [t3 EXCEPT !.err = "exec"]

\* cql applyMigration: check, one Exec per statement, INSERT; no transaction
applyMigrationCql(w, failAt, m) ==
    LET w1 == Step(w)
        t1 == Logged(w1, Ev("migrating", m.Version, "up", <<>>, TRUE))
        t2 == execStatements(t1, failAt, Statements(m.Up), m.Version, "up")
        t3 == Then(t2, LAMBDA t : MarkUp(t, m))
    IN IF isAppliedFails(w, failAt) THEN Fail(w1, "ledger")
       ELSE IF HasVersion(w.ledger, m.Version)
            THEN Logged(w1, Ev("skipped", m.Version, "up", <<>>, TRUE))
       ELSE Then(Then(t3, LAMBDA t : insertLedger("cql", t, failAt, m)),
                 LAMBDA t : Logged(t, Ev("done", m.Version, "up", <<>>, TRUE)))

\* one turn of the loop of Migrate; the mysql engine makes the check in
\* Migrate itself and prints nothing for an applied migration
migrateOne(b, w, failAt, m) ==
    IF b = "postgres" THEN applyMigrationPg(w, failAt, m)
    ELSE IF b = "cql" THEN applyMigrationCql(w, failAt, m)
    ELSE IF isAppliedFails(w, failAt) THEN Fail(Step(w), "ledger")
    ELSE IF HasVersion(w.ledger, m.Version) THEN Step(w)
    ELSE Then(applyMigrationMy(
                  Logged(Step(w), Ev("migrating", m.Version, "up", <<>>, TRUE)), failAt, m),
              LAMBDA t : Logged(t, Ev("done", m.Version, "up", <<>>, TRUE)))

\* a loop that goes on to the next migration after a failed one and returns
\* the first error at the end
RECURSIVE migrateLoopGoOn(_, _, _, _)
migrateLoopGoOn(b, w, failAt, migs) ==
    IF migs = <<>> THEN w
    ELSE LET r == migrateOne(b, [w EXCEPT !.err = "ok"], failAt, Head(migs))
         IN migrateLoopGoOn(b, [r EXCEPT !.err = IF w.err # "ok" THEN w.err ELSE r.err],
                            failAt, Tail(migs))

\* for _, migration := range migrations: the first error ends the loop
RECURSIVE migrateLoop(_, _, _, _)
migrateLoop(b, w, failAt, migs) ==
    IF migs = <<>> \/ w.err # "ok" THEN w
    ELSE migrateLoop(b, migrateOne(b, w, failAt, Head(migs)), failAt, Tail(migs))

\* Migrate, with ld the result of loadMigrations
Migrate(b, w, failAt, ld) ==
    LET w1 == createMigrationsTable(w, failAt)
    IN IF w1.err # "ok" THEN w1
       ELSE IF ld.err # "ok" THEN Fail(w1, ld.err)
       ELSE migrateLoop(b, w1, failAt, ld.migs)

\* ------------------------------------------------------------------------
\* Rollback engine
\* ------------------------------------------------------------------------

\* a rollback that uses no transaction on any backend
rollbackMigrationNoTx(b, w, failAt, m) ==
    Then(Then(execStatements(w, failAt, Statements(m.Down), m.Version, "down"),
              LAMBDA t : MarkDown(t, m)),
         LAMBDA t : deleteLedger(t, failAt, m))

\* rollbackMigration: one Exec per down statement, then the DELETE; in a
\* transaction on postgres and mysql
rollbackMigration(b, w, failAt, m) ==
    LET run(t) == execStatements(t, failAt, Statements(m.Down), m.Version, "down")
        del(t) == deleteLedger(t, failAt, m)
        t0     == begin(w, failAt)
        t2     == Then(Then(t0, run), del)
        t3     == Then(t2, LAMBDA t : commit(t, failAt))
    IN IF Transactional(b) THEN endTx(w, Then(t3, LAMBDA t : MarkDown(t, m)))
       ELSE Then(Then(run(w), LAMBDA t : MarkDown(t, m)), del)

\* the version of the row written last, 0 when the ledger is empty
LastWritten(ledger) ==
    IF ledger = <<>> THEN VZero ELSE ledger[Len(ledger)].version

\* the highest version of the ledger, 0 when it is empty:
\* COALESCE(MAX(version), 0), or the first row by version descending
MaxVersion(ledger) ==
    IF ledger = <<>> THEN VZero
    ELSE (CHOOSE r \in Range(ledger) :
             \A q \in Range(ledger) : ~VLess(r.version, q.version)).version

\* a search that settles for the newest loaded migration
FindNewest(migs, v) == IF migs = <<>> THEN NoMig ELSE migs[Len(migs)]

\* the first loaded migration with version v, or the zero Migration
FindVersion(migs, v) ==
    IF \E i \in 1..Len(migs) : migs[i].Version = v
    THEN migs[CHOOSE i \in 1..Len(migs) :
                 migs[i].Version = v /\ \A j \in 1..(i - 1) : migs[j].Version # v]
    ELSE NoMig

\* RollbackLast, with ld the result of loadMigrations
RollbackLast(b, w, failAt, ld) ==
    LET w1     == Step(w)
        latest == MaxVersion(w.ledger)
        m      == FindVersion(ld.migs, latest)
        found  == IF b = "mysql"
                  THEN \E i \in 1..Len(ld.migs) : ld.migs[i].Version = latest
                  ELSE m.Version # VZero
        r      == rollbackMigration(b, Logged(w1, Ev("rollback", latest, "down", <<>>, TRUE)),
                                    failAt, m)
    IN IF Hit(w, failAt) \/ ~w.ledgerExists THEN Fail(w1, "ledger")
       ELSE IF latest = VZero
            THEN Logged(w1, Ev("nomigrations", VZero, "down", <<>>, TRUE))
       ELSE IF ld.err # "ok" THEN Fail(w1, ld.err)
       ELSE IF ~found THEN Fail(w1, "notfound")
       ELSE Then(r, LAMBDA t : Logged(t, Ev("rolledback", latest, "down", <<>>, TRUE)))

\* the file name getAppliedMigrations builds for a ledger row
RowFileName(b, row) == FormatInt(row.version) \o <<"_">> \o row.name \o DotExt(b)

FileNamed(dir, fname) == {f \in dir : f.fname = fname}

\* the ledger row with the down-script of its file
RowMigration(b, dir, row) ==
    LET f == CHOOSE g \in FileNamed(dir, RowFileName(b, row)) : TRUE
    IN [Version |-> row.version, Name |-> row.name, Up |-> <<>>,
        Down |-> f.down, fname |-> f.fname]

\* os.ReadFile and the split on the down marker succeed for the row's file
RowLoadable(b, dir, row) ==
    \E f \in FileNamed(dir, RowFileName(b, row)) : f.downMarkers = 1

\* the applied migrations in the order the table returns them
AnyOrder(rows) == Perms(1..Len(rows))

\* the applied migrations by version descending (ORDER BY version DESC on
\* postgres and mysql, sort.Slice on postgres and cql): every descending
\* arrangement of the rows
SortDescending(rows) ==
    { s \in Perms(1..Len(rows)) :
        \A i, j \in 1..Len(s) :
            i < j => ~VLess(rows[s[i]].version, rows[s[j]].version) }

\* a loop that goes on to the lower versions after a failed rollback
RECURSIVE rollbackLoopGoOn(_, _, _, _, _, _)
rollbackLoopGoOn(b, w, failAt, applied, i, steps) ==
    IF ~(i < steps) THEN w
    ELSE LET r == Then(rollbackMigration(b,
                           Logged(w, Ev("rollback", applied[i + 1].Version, "down", <<>>, TRUE)),
                           failAt, applied[i + 1]),
                       LAMBDA t : Logged(t, Ev("rolledback", applied[i + 1].Version, "down",
                                               <<>>, TRUE)))
             next == rollbackLoopGoOn(b, [r EXCEPT !.err = "ok"], failAt, applied, i + 1, steps)
         IN IF r.err # "ok" THEN [next EXCEPT !.err = r.err] ELSE next

\* for i := 0; i < steps; i++: the first failing rollback ends the loop
RECURSIVE rollbackLoop(_, _, _, _, _, _)
rollbackLoop(b, w, failAt, applied, i, steps) ==
    IF ~(i < steps) \/ w.err # "ok" THEN w
    ELSE rollbackLoop(b,
             Then(rollbackMigration(b,
                      Logged(w, Ev("rollback", applied[i + 1].Version, "down", <<>>, TRUE)),
                      failAt, applied[i + 1]),
                  LAMBDA t : Logged(t, Ev("rolledback", applied[i + 1].Version, "down",
                                          <<>>, TRUE))),
             failAt, applied, i + 1, steps)

\* a RollbackSteps that refuses a count above the number of applied
\* migrations
RollbackStepsStrict(b, w, failAt, steps, dir, order) ==
    LET w1      == Step(w)
        rows    == w.ledger
        applied == [i \in 1..Len(order) |-> RowMigration(b, dir, rows[order[i]])]
    IN IF Hit(w, failAt) \/ ~w.ledgerExists THEN Fail(w1, "ledger")
       ELSE IF \E i \in 1..Len(rows) : ~RowLoadable(b, dir, rows[i]) THEN Fail(w1, "file")
       ELSE IF Len(rows) = 0
            THEN Logged(w1, Ev("nomigrations", VZero, "down", <<>>, TRUE))
       ELSE IF steps > Len(applied) THEN Fail(w1, "steps")
       ELSE rollbackLoop(b, w1, failAt, applied, 0, steps)

\* RollbackSteps, with order one descending arrangement of the ledger rows
RollbackSteps(b, w, failAt, steps, dir, order) ==
    LET w1      == Step(w)
        rows    == w.ledger
        applied == [i \in 1..Len(order) |-> RowMigration(b, dir, rows[order[i]])]
        clamp   == steps > Len(applied)
        n       == IF clamp THEN Len(applied) ELSE steps
        w2      == IF clamp
                   THEN Logged(w1, Ev("note", VZero, "down", <<>>, TRUE))
                   ELSE w1
    IN IF Hit(w, failAt) \/ ~w.ledgerExists THEN Fail(w1, "ledger")
       ELSE IF \E i \in 1..Len(rows) : ~RowLoadable(b, dir, rows[i]) THEN Fail(w1, "file")
       ELSE IF Len(rows) = 0
            THEN Logged(w1, Ev("nomigrations", VZero, "down", <<>>, TRUE))
       ELSE rollbackLoop(b, w2, failAt, applied, 0, n)

\* ------------------------------------------------------------------------
\* Fresh resetter
\* ------------------------------------------------------------------------

LedgerTable == "migrations"

\* DROP TABLE IF EXISTS tbl, outside any transaction
dropTable(w, failAt, tbl) ==
    IF Hit(w, failAt)
    THEN Fail(Logged(Step(w), Ev("drop", VZero, "down", <<Drop(tbl)>>, FALSE)), "exec")
    ELSE LET t == Logged(Step(w), Ev("drop", VZero, "down", <<Drop(tbl)>>, TRUE))
         IN IF tbl = LedgerTable
            THEN [t EXCEPT !.ledgerExists = FALSE, !.ledger = <<>>]
            ELSE [t EXCEPT !.schema = @ \ {tbl}]

RECURSIVE dropLoop(_, _, _)
dropLoop(w, failAt, tbls) ==
    IF tbls = <<>> \/ w.err # "ok" THEN w
    ELSE dropLoop(dropTable(w, failAt, Head(tbls)), failAt, Tail(tbls))

\* the tables the backend lists: every table of the schema, the ledger
\* table among them
AllTables(w) == w.schema \cup (IF w.ledgerExists THEN {LedgerTable} ELSE {})

\* the characters of the table names of the model
TableChars(tbl) ==
    CASE tbl = "users" -> <<"u", "s", "e", "r", "s">>
      [] tbl = "posts" -> <<"p", "o", "s", "t", "s">>
      [] tbl = "tags" -> <<"t", "a", "g", "s">>
      [] tbl = "post_tags" -> <<"p", "o", "s", "t", "_", "t", "a", "g", "s">>
      [] tbl = "logs" -> <<"l", "o", "g", "s">>
      [] tbl = "orders" -> <<"o", "r", "d", "e", "r", "s">>
      [] tbl = "items" -> <<"i", "t", "e", "m", "s">>
      [] tbl = "system_logs" -> <<"s", "y", "s", "t", "e", "m", "_", "l", "o", "g", "s">>
      [] tbl = "migrations" -> <<"m", "i", "g", "r", "a", "t", "i", "o", "n", "s">>
      [] OTHER -> <<>>

\* tablename LIKE 'pg_%': "pg", one character, then anything
LikePg(tbl) == Len(TableChars(tbl)) >= 3 /\ HasPrefix(TableChars(tbl), <<"p", "g">>)

\* tables the postgres DO block leaves alone
PgKept(tbl) ==
    \/ tbl \in {"spatial_ref_sys", "geography_columns", "geometry_columns"}
    \/ LikePg(tbl)

\* tables the cql loop leaves alone (the ledger table is dropped after it)
CqlKept(tbl) ==
    \/ tbl \in {"system", "system_schema", "system_auth", "system_distributed",
                "system_traces", LedgerTable}
    \/ HasPrefix(TableChars(tbl), <<"s", "y", "s", "t", "e", "m", "_">>)
    \/ HasPrefix(TableChars(tbl), <<"s", "c", "y", "l", "l", "a", "_">>)

\* the tables dropAllTables drops one by one, as a set; their order is the
\* order in which the backend lists them
DropSet(b, w) ==
    IF b = "postgres" THEN {t \in AllTables(w) : ~PgKept(t)}
    ELSE IF b = "mysql" THEN AllTables(w)
    ELSE {t \in w.schema : ~CqlKept(t)}

\* history: a completed drop leaves no up-script in effect; a drop that
\* failed after its first DROP is remembered until a drop completes
Wiped(w0, w) ==
    IF w.err = "ok" THEN [w EXCEPT !.upDone = {}, !.partialDrop = FALSE]
    ELSE IF w.schema # w0.schema \/ w.ledgerExists # w0.ledgerExists
         THEN [w EXCEPT !.partialDrop = TRUE]
    ELSE w

\* postgres dropAllTables: one DO block, a single statement
dropAllTablesPg(w, failAt) ==
    IF Hit(w, failAt) THEN Fail(Step(w), "exec")
    ELSE Wiped(w, [Step(w) EXCEPT !.schema = {t \in @ : PgKept(t)},
                                  !.ledgerExists = FALSE, !.ledger = <<>>])

\* mysql dropAllTables: SET FOREIGN_KEY_CHECKS, the table query, one DROP
\* per listed table
dropAllTablesMy(w, failAt, order) ==
    LET w1 == IF Hit(w, failAt) THEN Fail(Step(w), "exec") ELSE Step(w)
        w2 == Then(w1, LAMBDA t : IF Hit(t, failAt) THEN Fail(Step(t), "exec") ELSE Step(t))
    IN Wiped(w, Then(w2, LAMBDA t : dropLoop(t, failAt, order)))

\* cql dropAllTables: the table query, one DROP per user table, then the
\* DROP of the ledger table
dropAllTablesCql(w, failAt, order) ==
    LET w1 == IF Hit(w, failAt) THEN Fail(Step(w), "exec") ELSE Step(w)
        w2 == Then(w1, LAMBDA t : dropLoop(t, failAt, order))
    IN Wiped(w, Then(w2, LAMBDA t : dropTable(t, failAt, LedgerTable)))

dropAllTables(b, w, failAt, order) ==
    IF b = "postgres" THEN dropAllTablesPg(w, failAt)
    ELSE IF b = "mysql" THEN dropAllTablesMy(w, failAt, order)
    ELSE dropAllTablesCql(w, failAt, order)

\* MigrateFresh: dropAllTables, then Migrate
MigrateFresh(b, w, failAt, order, ld) ==
    Then(dropAllTables(b, w, failAt, order), LAMBDA t : Migrate(b, t, failAt, ld))

\* ------------------------------------------------------------------------
\* Listing
\* ------------------------------------------------------------------------

\* a status line that never says applied
ListedPending(w, m) ==
    Logged(w, Ev("pending", m.Version, "up", <<>>, TRUE))

\* the status line of one migration
Listed(w, m) ==
    Logged(w, Ev(IF HasVersion(w.ledger, m.Version) THEN "applied" ELSE "pending",
                 m.Version, "up", <<>>, TRUE))

RECURSIVE listLoop(_, _)
listLoop(w, migs) ==
    IF migs = <<>> THEN w ELSE listLoop(Listed(w, Head(migs)), Tail(migs))

\* mysql ListMigrations: one isMigrationApplied query per migration
RECURSIVE listLoopMy(_, _, _)
listLoopMy(w, failAt, migs) ==
    IF migs = <<>> THEN w
    ELSE IF isAppliedFails(w, failAt) THEN Fail(Step(w), "ledger")
    ELSE listLoopMy(Listed(Step(w), Head(migs)), failAt, Tail(migs))

\* ListMigrations, with ld the result of loadMigrations: postgres and cql
\* read the whole ledger in one query
ListMigrations(b, w, failAt, ld) ==
    IF ld.err # "ok" THEN Fail(w, ld.err)
    ELSE IF b = "mysql"
         THEN IF ld.migs = <<>>
              THEN Logged(w, Ev("nomigrationsfound", VZero, "up", <<>>, TRUE))
              ELSE listLoopMy(w, failAt, ld.migs)
    ELSE IF Hit(w, failAt) \/ ~w.ledgerExists THEN Fail(Step(w), "ledger")
    ELSE listLoop(Step(w), ld.migs)

\* ------------------------------------------------------------------------
\* CLI: <backend>-rollback, <backend>-rollback:all, <backend>-rollback:<n>
\* ------------------------------------------------------------------------
\* arg is the suffix of the verb: kind "none" (no suffix), "all", or "num"
\* with n the number after the colon. The result is the world, the engine
\* function called (fn, steps), the exit status and the line printed last.

CliResult(w, fn, steps, exit, msg) ==
    [w |-> w, fn |-> fn, steps |-> steps, exit |-> exit, msg |-> msg]

\* handlePostgresRollback, handleScyllaRollback
handleRollbackSteps(b, w, failAt, arg, dir, order) ==
    LET steps == IF arg.kind = "none" THEN 1
                 ELSE IF arg.kind = "all" THEN 0 - 1 ELSE arg.n
        r     == RollbackSteps(b, w, failAt, steps, dir, order)
    IN IF arg.kind = "num" /\ steps < 1
       THEN CliResult(w, "none", steps, 1, "invalid steps")
       ELSE IF r.err # "ok" THEN CliResult(r, "RollbackSteps", steps, 1, "failed")
       ELSE IF steps = 0 - 1 THEN CliResult(r, "RollbackSteps", steps, 0, "rolled back all")
       ELSE CliResult(r, "RollbackSteps", steps, 0, "rolled back n")

\* handleMySQLRollback: the error of RollbackSteps is assigned to a variable
\* of the inner block and never looked at
handleMySQLRollback(b, w, failAt, arg, dir, ld, order) ==
    LET last == RollbackLast(b, w, failAt, ld)
        r    == RollbackSteps(b, w, failAt, arg.n, dir, order)
    IN IF arg.kind = "none"
       THEN CliResult(last, "RollbackLast", 1, IF last.err # "ok" THEN 1 ELSE 0,
                      IF last.err # "ok" THEN "failed" ELSE "")
       ELSE IF arg.kind = "all" THEN CliResult(w, "none", 0, 1, "invalid steps")
       ELSE CliResult(r, "RollbackSteps", arg.n, 0, "")

handleRollback(b, w, failAt, arg, dir, ld, order) ==
    IF b = "mysql" THEN handleMySQLRollback(b, w, failAt, arg, dir, ld, order)
    ELSE handleRollbackSteps(b, w, failAt, arg, dir, order)

\* ------------------------------------------------------------------------
\* CreateMigration
\* ------------------------------------------------------------------------

\* the postgres package of migrations/postgres/migrations.go, which has no
\* RollbackSteps and no duplicate check
LegacyPostgres == "postgres-legacy"

Packages == Backends \cup {LegacyPostgres}

\* camelToSnakeCase: "_" before every upper-case letter but the first
\* character, every letter lower-cased
camelToSnakeCase(s) ==
    LET piece(i) == IF i > 1 /\ IsUpper(s[i]) THEN <<"_", LowerChar(s[i])>>
                    ELSE <<LowerChar(s[i])>>
        RECURSIVE build(_)
        build(i) == IF i > Len(s) THEN <<>> ELSE piece(i) \o build(i + 1)
    IN build(1)

\* extractTableName
extractTableName(name) ==
    camelToSnakeCase(
        TrimSuffix(TrimPrefix(TrimPrefix(name, <<"c", "r", "e", "a", "t", "e", "_">>), <<"a", "d", "d", "_">>), <<"_", "t", "a", "b", "l", "e">>))

\* checkDuplicateTableName: the possible results; "duplicate" when a loaded
\* migration has the table name, the error of the load when it fails
checkDuplicateTableName(b, dir, newTableName) ==
    { IF ld.err # "ok" THEN ld.err
      ELSE IF \E i \in 1..Len(ld.migs) :
                  EqualFold(extractTableName(ld.migs[i].Name), newTableName)
           THEN "duplicate"
      ELSE "ok" : ld \in loadMigrations(b, dir) }

\* the file CreateMigration writes at time stamp
NewFile(b, stamp, name) ==
    LET tbl == Str(ToLowerText(extractTableName(name)))
    IN MigFile(stamp, name, b, <<Create(tbl), Blank>>, <<Drop(tbl), Blank>>)

\* os.WriteFile: a file of the same name is replaced
WriteFile(dir, f) == {g \in dir : g.fname # f.fname} \cup {f}

\* CreateMigration(name) at time stamp: the possible results [err, dir]
CreateMigration(b, dir, stamp, name) ==
    IF b = LegacyPostgres
    THEN {[err |-> "ok", dir |-> WriteFile(dir, NewFile(b, stamp, name))]}
    ELSE { IF e # "ok" THEN [err |-> e, dir |-> dir]
           ELSE [err |-> "ok", dir |-> WriteFile(dir, NewFile(b, stamp, name))] :
           e \in checkDuplicateTableName(b, dir, extractTableName(name)) }

\* CreateMigration when the sub-directory may be missing: the possible
\* results [err, dir, exists]. postgres and cql load the directory for the
\* duplicate check before anything else, and os.ReadDir fails on a missing
\* directory; mysql takes a missing directory for an empty one; the legacy
\* package loads nothing. os.MkdirAll comes after the check, before the
\* write.
CreateMigrationIn(b, exists, dir, stamp, name) ==
    IF ~exists /\ b \in {"postgres", "cql"}
    THEN {[err |-> "readdir", dir |-> dir, exists |-> FALSE]}
    ELSE {[err |-> r.err, dir |-> r.dir, exists |-> exists \/ r.err = "ok"] :
             r \in CreateMigration(b, dir, stamp, name)}

\* The entries loadMigrations reads, dir being the files of the
\* sub-directory sql or cql of the migration path, where CreateMigration
\* writes. The engines read that sub-directory; the legacy package reads
\* the migration path itself, whose only entry is the sub-directory.
ReadDir(pkg, dir) == IF pkg = LegacyPostgres THEN {} ELSE dir

\* the load of the package that follows its CreateMigration
loadCreated(pkg, dir) == loadMigrations(pkg, ReadDir(pkg, dir))

\* ------------------------------------------------------------------------
\* Configuration (package config)
\* ------------------------------------------------------------------------

ConfigTypes == {"postgres", "cql", "mysql"}

\* the fields of JBMDBConfig by their JSON keys
ConfigKeys == {"postgres", "scylla", "mysql"}

\* the field a config type is stored in
SectionOf(configType) == IF configType = "cql" THEN "scylla" ELSE configType

\* a nil section
Nil == [kind |-> "nil", MigrationPath |-> "", Host |-> ""]

\* &JBMDBConfig{}
EmptyConfig == [k \in ConfigKeys |-> Nil]

\* the zero value of the config struct of kind T
ZeroConfig(T) == [kind |-> T, MigrationPath |-> "", Host |-> ""]

\* the file: missing, JSON text, or text that is no JSON
NoFile == [state |-> "missing", data |-> {}]

BadFile == [state |-> "corrupt", data |-> {}]

\* json.MarshalIndent(currentConfig): the members of the object; a nil
\* section is omitted (omitempty)
Marshal(cur) == {<<k, cur[k]>> : k \in {j \in ConfigKeys : cur[j] # Nil}}

\* json.Unmarshal into a new JBMDBConfig: a key that is absent leaves its
\* section nil
Unmarshal(data) ==
    [k \in ConfigKeys |->
        IF \E p \in data : p[1] = k THEN (CHOOSE p \in data : p[1] = k)[2] ELSE Nil]

\* loadConfigFile: [err, cur]; a missing file gives an empty configuration
loadConfigFile(file) ==
    IF file.state = "missing" THEN [err |-> "ok", cur |-> EmptyConfig]
    ELSE IF file.state = "corrupt" THEN [err |-> "parse", cur |-> EmptyConfig]
    ELSE [err |-> "ok", cur |-> Unmarshal(file.data)]

\* createDefaultConfig for a value of kind T
createDefaultConfig(configType, T) ==
    IF T # configType THEN ZeroConfig(T)
    ELSE [kind |-> T,
          MigrationPath |-> IF T = "postgres" THEN "migrations/postgres"
                            ELSE IF T = "cql" THEN "migrations/cql"
                            ELSE "migrations/mysql",
          Host |-> "localhost"]

\* LoadConfig[T](configType): [err, config]
LoadConfig(file, configType, T) ==
    LET ld == loadConfigFile(file)
    IN IF ld.err # "ok" THEN [err |-> "load", config |-> Nil]
       ELSE IF configType \notin ConfigTypes THEN [err |-> "invalid", config |-> Nil]
       ELSE IF ld.cur[SectionOf(configType)] = Nil
            THEN [err |-> "ok", config |-> createDefaultConfig(configType, T)]
       ELSE [err |-> "ok",
             config |-> IF T = configType THEN ld.cur[SectionOf(configType)]
                        ELSE ZeroConfig(T)]

\* a switch that forgets the sections it was not given
SetSectionOnly(cur, configType, config) ==
    IF config.kind = configType
    THEN [EmptyConfig EXCEPT ![SectionOf(configType)] = config]
    ELSE cur

\* the switch of SaveConfig: the section of configType is set when config
\* is of the struct type of that section
SetSection(cur, configType, config) ==
    IF config.kind = configType
    THEN [cur EXCEPT ![SectionOf(configType)] = config]
    ELSE cur

\* SaveConfig[T](config, configType): [err, file]; mkdirOk and writeOk say
\* whether os.MkdirAll and os.WriteFile succeed
SaveConfig(file, config, configType, mkdirOk, writeOk) ==
    LET ld   == loadConfigFile(file)
        cur  == SetSection(ld.cur, configType, config)
        path == IF config.kind = configType THEN config.MigrationPath ELSE ""
    IN IF ld.err # "ok" THEN [err |-> "load", file |-> file]
       ELSE IF configType \notin ConfigTypes THEN [err |-> "invalid", file |-> file]
       ELSE IF path # "" /\ ~mkdirOk THEN [err |-> "mkdir", file |-> file]
       ELSE IF ~writeOk THEN [err |-> "write", file |-> file]
       ELSE [err |-> "ok", file |-> [state |-> "json", data |-> Marshal(cur)]]

\* ------------------------------------------------------------------------
\* CLI: validateMigrationName
\* ------------------------------------------------------------------------

PrefixCreate == <<"c", "r", "e", "a", "t", "e", "_">>

SuffixTable == <<"_", "t", "a", "b", "l", "e">>

EndsInS(word) == HasSuffix(word, <<"s">>)

\* a validation that wants every word of a relation table plural
validateMigrationNameAllPlural(name) ==
    LET parts == Split(TrimSuffix(TrimPrefix(name, PrefixCreate), SuffixTable), "_")
    IN IF ~HasPrefix(name, PrefixCreate) \/ ~HasSuffix(name, SuffixTable) THEN "format"
       ELSE IF Len(parts) = 1 /\ ~EndsInS(parts[1]) THEN "single"
       ELSE IF Len(parts) > 1 /\ \E i \in 1..Len(parts) : ~EndsInS(parts[i]) THEN "relation"
       ELSE "ok"

\* validateMigrationName: "ok" when it returns, else the error it prints
\* before os.Exit(1)
validateMigrationName(name) ==
    LET parts == Split(TrimSuffix(TrimPrefix(name, PrefixCreate), SuffixTable), "_")
    IN IF ~HasPrefix(name, PrefixCreate) \/ ~HasSuffix(name, SuffixTable) THEN "format"
       ELSE IF Len(parts) = 1 /\ ~EndsInS(parts[1]) THEN "single"
       ELSE IF Len(parts) > 1 /\ ~EndsInS(parts[Len(parts)]) THEN "relation"
       ELSE "ok"

\* ------------------------------------------------------------------------
\* CLI: <backend>-migrate, <backend>-fresh, <backend>-list
\* ------------------------------------------------------------------------

\* confirmFreshMigration: the answer read by fmt.Scanln goes on only when
\* its lower case is "y"
Confirmed(answer) == ToLowerText(answer) = <<"y">>

\* the end of a handler that tests the error of the engine function
CliChecked(r, fn, done) ==
    IF r.err # "ok" THEN CliResult(r, fn, 0, 1, "failed")
    ELSE CliResult(r, fn, 0, 0, done)

\* postgres and cql "migrate"; mysql "migrate"
handleMigrate(b, w, failAt, ld) ==
    CliChecked(Migrate(b, w, failAt, ld), "Migrate",
               IF b = "mysql" THEN "" ELSE "migrations completed")

\* postgres and cql "fresh": confirmFreshMigration, then MigrateFresh;
\* mysql "fresh": MigrateFresh at once
handleFresh(b, w, failAt, answer, order, ld) ==
    IF b # "mysql" /\ ~Confirmed(answer) THEN CliResult(w, "none", 0, 0, "cancelled")
    ELSE CliChecked(MigrateFresh(b, w, failAt, order, ld), "MigrateFresh",
                    IF b = "mysql" THEN "" ELSE "fresh completed")

\* "list"
handleList(b, w, failAt, ld) ==
    CliChecked(ListMigrations(b, w, failAt, ld), "ListMigrations", "")

\* ------------------------------------------------------------------------
\* CLI: main and the handlers of the three database types
\* ------------------------------------------------------------------------
\* A command is the text of flag.Arg(0); args are the arguments after it.
\* The result names the operation the command reached (to), whether
\* validateMigrationName was called, the database and the directory
\* afterwards and the exit status. Loading the configuration and connecting
\* succeed; CreateDatabase, CreateUser and CreateKeyspace act outside the
\* migration database and are modelled by their name only.

Word(t) == Str(t)

MainResult(to, validated, w, dir, exit) ==
    [to |-> to, validated |-> validated, w |-> w, dir |-> dir, exit |-> exit]

\* strconv.Atoi on the texts the model gives: a decimal digit
AtoiFails(t) == Len(t) # 1 \/ ~IsDigit(t[1])

\* the steps of handlePostgresRollback and handleScyllaRollback:
\* strings.Split(action, ":"), "all" or strconv.Atoi
SplitRollbackArg(action) ==
    LET parts == Split(action, ":")
    IN IF Len(parts) = 1 THEN [kind |-> "none", n |-> 1]
       ELSE IF parts[2] = <<"a", "l", "l">> THEN [kind |-> "all", n |-> 0]
       ELSE IF AtoiFails(parts[2]) THEN [kind |-> "bad", n |-> 0]
       ELSE [kind |-> "num", n |-> DigitVal(parts[2][1])]

\* the steps of handleMySQLRollback: action == "rollback", or
\* strconv.Atoi(action[9:])
SliceRollbackArg(action) ==
    IF action = <<"r", "o", "l", "l", "b", "a", "c", "k">> THEN [kind |-> "none", n |-> 1]
    ELSE IF AtoiFails(SliceFrom(action, 9)) THEN [kind |-> "all", n |-> 0]
    ELSE [kind |-> "num", n |-> DigitVal(SliceFrom(action, 9)[1])]

\* a rollback handler, from the action text
rollbackVerb(b, action, w, dir, in) ==
    LET arg == IF b = "mysql" THEN SliceRollbackArg(action) ELSE SplitRollbackArg(action)
        r   == handleRollback(b, w, in.failAt, arg, dir, in.ld, in.rows)
    IN IF arg.kind = "bad" THEN MainResult("invalid steps", FALSE, w, dir, 1)
       ELSE MainResult(IF r.fn = "none" THEN r.msg ELSE r.fn, FALSE, r.w, dir, r.exit)

\* case "migration" of handlePostgres and handleScylla: the name is
\* required, validated, and given to CreateMigration
migrationVerb(b, args, w, dir, stamp) ==
    IF Len(args) < 1 THEN {MainResult("name required", FALSE, w, dir, 1)}
    ELSE IF validateMigrationName(args[1]) # "ok"
         THEN {MainResult("invalid name", TRUE, w, dir, 1)}
    ELSE { MainResult("CreateMigration", TRUE, w, r.dir, IF r.err = "ok" THEN 0 ELSE 1) :
           r \in CreateMigration(b, dir, stamp, args[1]) }

\* case "create" of handleMySQL: flag.Arg(1) must not be empty
createVerb(b, args, w, dir, stamp) ==
    IF Len(args) < 1 \/ args[1] = <<>> THEN {MainResult("name required", FALSE, w, dir, 1)}
    ELSE { MainResult("CreateMigration", FALSE, w, r.dir, IF r.err = "ok" THEN 0 ELSE 1) :
           r \in CreateMigration(b, dir, stamp, args[1]) }

\* the cases after the connection: migrate, fresh, list
databaseVerb(b, action, w, dir, in) ==
    LET r == CASE action = <<"m", "i", "g", "r", "a", "t", "e">> -> handleMigrate(b, w, in.failAt, in.ld)
               [] action = <<"f", "r", "e", "s", "h">> -> handleFresh(b, w, in.failAt, in.answer, in.order, in.ld)
               [] OTHER -> handleList(b, w, in.failAt, in.ld)
    IN MainResult(IF r.fn = "none" THEN r.msg ELSE r.fn, FALSE, r.w, dir, r.exit)

\* handlePostgres
handlePostgres(action, args, w, dir, stamp, in) ==
    IF action = <<"i", "n", "i", "t">> THEN {MainResult("init", FALSE, w, dir, 0)}
    ELSE IF action = <<"c", "r", "e", "a", "t", "e", "-", "d", "b">> THEN {MainResult("CreateDatabase", FALSE, w, dir, 0)}
    ELSE IF HasPrefix(action, <<"c", "r", "e", "a", "t", "e", "-", "u", "s", "e", "r">>)
         THEN IF Len(Split(action, ":")) # 2 THEN {MainResult("usage", FALSE, w, dir, 1)}
              ELSE {MainResult("CreateUser", FALSE, w, dir, 0)}
    ELSE IF HasPrefix(action, <<"r", "o", "l", "l", "b", "a", "c", "k">>) THEN {rollbackVerb("postgres", action, w, dir, in)}
    ELSE IF action = <<"m", "i", "g", "r", "a", "t", "i", "o", "n">> THEN migrationVerb("postgres", args, w, dir, stamp)
    ELSE IF action \in {<<"m", "i", "g", "r", "a", "t", "e">>, <<"f", "r", "e", "s", "h">>, <<"l", "i", "s", "t">>}
         THEN {databaseVerb("postgres", action, w, dir, in)}
    ELSE {MainResult("unknown command", FALSE, w, dir, 1)}

\* handleScylla
handleScylla(action, args, w, dir, stamp, in) ==
    IF action = <<"i", "n", "i", "t">> THEN {MainResult("init", FALSE, w, dir, 0)}
    ELSE IF HasPrefix(action, <<"c", "r", "e", "a", "t", "e", "-", "k", "e", "y", "s", "p", "a", "c", "e">>)
         THEN IF Len(Split(action, ":")) # 3 \/ AtoiFails(Split(action, ":")[3])
              THEN {MainResult("usage", FALSE, w, dir, 1)}
              ELSE {MainResult("CreateKeyspace", FALSE, w, dir, 0)}
    ELSE IF HasPrefix(action, <<"c", "r", "e", "a", "t", "e", "-", "u", "s", "e", "r">>)
         THEN IF Len(Split(action, ":")) # 2 THEN {MainResult("usage", FALSE, w, dir, 1)}
              ELSE {MainResult("CreateUser", FALSE, w, dir, 0)}
    ELSE IF HasPrefix(action, <<"r", "o", "l", "l", "b", "a", "c", "k">>) THEN {rollbackVerb("cql", action, w, dir, in)}
    ELSE IF action = <<"m", "i", "g", "r", "a", "t", "i", "o", "n">> THEN migrationVerb("cql", args, w, dir, stamp)
    ELSE IF action \in {<<"m", "i", "g", "r", "a", "t", "e">>, <<"f", "r", "e", "s", "h">>, <<"l", "i", "s", "t">>}
         THEN {databaseVerb("cql", action, w, dir, in)}
    ELSE {MainResult("unknown command", FALSE, w, dir, 1)}

\* handleMySQL
handleMySQL(action, args, w, dir, stamp, in) ==
    IF action = <<"i", "n", "i", "t">> THEN {MainResult("init", FALSE, w, dir, 0)}
    ELSE IF action = <<"c", "r", "e", "a", "t", "e", "-", "d", "b">> THEN {MainResult("CreateDatabase", FALSE, w, dir, 0)}
    ELSE IF HasPrefix(action, <<"c", "r", "e", "a", "t", "e", "-", "u", "s", "e", "r">>)
         THEN IF Len(Split(action, ":")) # 2 THEN {MainResult("usage", FALSE, w, dir, 1)}
              ELSE {MainResult("CreateUser", FALSE, w, dir, 0)}
    ELSE IF HasPrefix(action, <<"r", "o", "l", "l", "b", "a", "c", "k">>) THEN {rollbackVerb("mysql", action, w, dir, in)}
    ELSE IF action \in {<<"m", "i", "g", "r", "a", "t", "e">>, <<"f", "r", "e", "s", "h">>, <<"l", "i", "s", "t">>}
         THEN {databaseVerb("mysql", action, w, dir, in)}
    ELSE IF action = <<"c", "r", "e", "a", "t", "e">> THEN createVerb("mysql", args, w, dir, stamp)
    ELSE {MainResult("usage", FALSE, w, dir, 1)}

\* the database type a command word names, "" for none
DbType(word) ==
    IF word = <<"p", "o", "s", "t", "g", "r", "e", "s">> THEN "postgres"
    ELSE IF word \in {<<"c", "q", "l">>, <<"c", "a", "s", "s", "a", "n", "d", "r", "a">>} THEN "cql"
    ELSE IF word = <<"m", "y", "s", "q", "l">> THEN "mysql"
    ELSE ""

\* main: the special commands, strings.Split(command, "-") into database
\* type and action, and the handler of the type
main(command, args, w, dir, stamp, in) ==
    LET parts == Split(command, "-")
    IN IF command \in {<<"c", "o", "n", "f", "i", "g">>, <<"u", "p", "d", "a", "t", "e">>, <<"v", "e", "r", "s", "i", "o", "n">>}
       THEN {MainResult(Word(command), FALSE, w, dir, 0)}
       ELSE IF Len(parts) # 2 THEN {MainResult("usage", FALSE, w, dir, 1)}
       ELSE IF DbType(parts[1]) = "postgres"
            THEN handlePostgres(parts[2], args, w, dir, stamp, in)
       ELSE IF DbType(parts[1]) = "cql"
            THEN handleScylla(parts[2], args, w, dir, stamp, in)
       ELSE IF DbType(parts[1]) = "mysql"
            THEN handleMySQL(parts[2], args, w, dir, stamp, in)
       ELSE {MainResult("invalid database type", FALSE, w, dir, 1)}

\* ------------------------------------------------------------------------
\* State
\* ------------------------------------------------------------------------

VARIABLES
    backend,       \* the engine in use
    files,         \* the migration directory of the backend
    subdir,        \* the sub-directory sql or cql of the migration path exists
    conf,          \* the configuration file .jbmdb.conf
    ledgerExists,  \* the table "migrations" exists
    ledger,        \* its rows [version, name], in insertion order
    schema,        \* the user tables
    upDone,        \* history: files whose up-script is executed and not reversed
    partialDrop,   \* history: a fresh reset failed between two DROPs
    run,           \* the process that has just run: call, result, output
    prev,          \* history: the run before, if it was a successful Migrate or RollbackLast
    procs          \* the Migrate processes that run at the same time, step by step

vars == <<backend, files, subdir, conf, ledgerExists, ledger, schema, upDone, partialDrop, run, prev, procs>>

\* bounds of the inputs
MaxSteps == 4

MaxFailAt == 26

FailPoints == 0..MaxFailAt

StepArgs == (0 - 1)..MaxSteps

CliArgs == {[kind |-> "none", n |-> 1], [kind |-> "all", n |-> 0]}
               \cup {[kind |-> "num", n |-> k] : k \in 0..MaxSteps}

\* the database and history a run starts from
World ==
    [ledgerExists |-> ledgerExists, ledger |-> ledger, schema |-> schema,
     upDone |-> upDone, partialDrop |-> partialDrop,
     calls |-> 0, err |-> "ok", log |-> <<>>]

Snapshot == [ledger |-> ledger, schema |-> schema, ledgerExists |-> ledgerExists]

NoPrev == [migrated |-> FALSE, ledger |-> <<>>, undone |-> {}]

\* the two processes of a concurrent run
Procs == {"a", "b"}

\* a transaction that is not open: tables created and rows inserted in an
\* open transaction are its own until Commit
NoTx == [open |-> FALSE, schema |-> {}, rows |-> <<>>]

\* pc: the next call of the process; todo: the migrations of its loop, the
\* current one first; i: the next statement of the current up-script; ran:
\* history, the versions whose up-script it has executed; saw: history, the
\* rows of the current version in the ledger when its check was made
NoProc ==
    [pc |-> "none", todo |-> <<>>, i |-> 0, tx |-> NoTx, ran |-> {}, saw |-> 0,
     err |-> "ok"]

NoProcs == [p \in Procs |-> NoProc]

\* no process is running
NoRun ==
    [op |-> "none", steps |-> 0, err |-> "ok", exit |-> 0, msg |-> "", log |-> <<>>,
     pre |-> [ledger |-> <<>>, schema |-> {}, ledgerExists |-> FALSE],
     after |-> NoPrev]

Idle == run.op = "none"

\* the state after a run that ended in world w
Finish(w, op, steps, exit, msg) ==
    /\ ledgerExists' = w.ledgerExists
    /\ ledger' = w.ledger
    /\ schema' = w.schema
    /\ upDone' = w.upDone
    /\ partialDrop' = w.partialDrop
    /\ run' = [op |-> op, steps |-> steps, err |-> w.err, exit |-> exit, msg |-> msg,
               log |-> w.log, pre |-> Snapshot, after |-> prev]
    /\ prev' = IF op = "Migrate" /\ w.err = "ok"
               THEN [migrated |-> TRUE, ledger |-> ledger, undone |-> {}]
               ELSE IF op = "RollbackLast" /\ w.err = "ok"
               THEN [NoPrev EXCEPT !.undone =
                        {ledger[i].version : i \in 1..Len(ledger)}
                            \ {w.ledger[i].version : i \in 1..Len(w.ledger)}]
               ELSE NoPrev
    /\ UNCHANGED <<backend, subdir, conf, files, procs>>

ExitOf(w) == IF w.err = "ok" THEN 0 ELSE 1

Init ==
    /\ backend \in Backends
    /\ subdir = TRUE
    /\ conf = NoFile
    /\ files \in SUBSET Catalogue(backend)
    /\ ledgerExists = FALSE
    /\ ledger = <<>>
    /\ schema = {}
    /\ upDone = {}
    /\ partialDrop = FALSE
    /\ run = NoRun
    /\ prev = NoPrev
    /\ procs = NoProcs

\* <backend>-migrate
DoMigrate ==
    /\ Idle
    /\ \E failAt \in FailPoints, ld \in loadMigrations(backend, files) :
        LET w == Migrate(backend, World, failAt, ld)
        IN Finish(w, "Migrate", 0, ExitOf(w), "")

\* RollbackLast
DoRollbackLast ==
    /\ Idle
    /\ \E failAt \in FailPoints, ld \in loadMigrations(backend, files) :
        LET w == RollbackLast(backend, World, failAt, ld)
        IN Finish(w, "RollbackLast", 1, ExitOf(w), "")

\* RollbackSteps(steps)
DoRollbackSteps ==
    /\ Idle
    /\ \E failAt \in FailPoints, steps \in StepArgs, order \in SortDescending(ledger) :
        LET w == RollbackSteps(backend, World, failAt, steps, files, order)
        IN Finish(w, "RollbackSteps", steps, ExitOf(w), "")

\* <backend>-fresh, confirmed
DoMigrateFresh ==
    /\ Idle
    /\ \E failAt \in FailPoints, ld \in loadMigrations(backend, files),
          order \in Perms(DropSet(backend, World)) :
        LET w == MigrateFresh(backend, World, failAt, order, ld)
        IN Finish(w, "MigrateFresh", 0, ExitOf(w), "")

\* <backend>-rollback with its suffix
DoCliRollback ==
    /\ Idle
    /\ \E failAt \in FailPoints, arg \in CliArgs, ld \in loadMigrations(backend, files),
          order \in SortDescending(ledger) :
        LET r == handleRollback(backend, World, failAt, arg, files, ld, order)
        IN Finish(r.w, "cli-rollback", r.steps, r.exit, r.msg)

\* the process ends; its output is gone, the database stays
Exit ==
    /\ ~Idle
    /\ run' = NoRun
    /\ UNCHANGED <<backend, subdir, conf, files, ledgerExists, ledger, schema, upDone, partialDrop, prev, procs>>

Next ==
    \/ DoMigrate
    \/ DoRollbackLast
    \/ DoRollbackSteps
    \/ DoMigrateFresh
    \/ Exit

Spec == Init /\ [][Next]_vars

\* the command line: migrate and the rollback verbs
NextCli ==
    \/ DoMigrate
    \/ DoCliRollback
    \/ Exit

SpecCli == Init /\ [][NextCli]_vars

\* a directory in which files are malformed and files go missing
InitStore ==
    /\ backend \in Backends
    /\ subdir = TRUE
    /\ conf = NoFile
    /\ files \in SUBSET StoreCatalogue(backend)
    /\ ledgerExists = FALSE
    /\ ledger = <<>>
    /\ schema = {}
    /\ upDone = {}
    /\ partialDrop = FALSE
    /\ run = NoRun
    /\ prev = NoPrev
    /\ procs = NoProcs

\* ListMigrations
DoListMigrations ==
    /\ Idle
    /\ \E failAt \in FailPoints, ld \in loadMigrations(backend, files) :
        LET w == ListMigrations(backend, World, failAt, ld)
        IN Finish(w, "ListMigrations", 0, ExitOf(w), "")

\* a file is deleted from the migration directory
RemoveFile ==
    /\ Idle
    /\ \E f \in files : files' = files \ {f}
    /\ prev' = NoPrev
    /\ UNCHANGED <<backend, subdir, conf, ledgerExists, ledger, schema, upDone, partialDrop, run, procs>>

NextStore ==
    \/ DoMigrate
    \/ DoRollbackLast
    \/ DoRollbackSteps
    \/ DoMigrateFresh
    \/ DoListMigrations
    \/ RemoveFile
    \/ Exit

SpecStore == InitStore /\ [][NextStore]_vars

\* the answers given to the question of <backend>-fresh
Answers == {<<>>, <<"y">>, <<"Y">>, <<"n">>, <<"y", "e", "s">>}

\* <backend>-migrate
DoCliMigrate ==
    /\ Idle
    /\ \E failAt \in FailPoints, ld \in loadMigrations(backend, files) :
        LET r == handleMigrate(backend, World, failAt, ld)
        IN Finish(r.w, "cli-migrate", r.steps, r.exit, r.msg)

\* <backend>-fresh
DoCliFresh ==
    /\ Idle
    /\ \E failAt \in FailPoints, ld \in loadMigrations(backend, files),
          order \in Perms(DropSet(backend, World)), answer \in Answers :
        LET r == handleFresh(backend, World, failAt, answer, order, ld)
        IN Finish(r.w, "cli-fresh", r.steps, r.exit, r.msg)

\* <backend>-list
DoCliList ==
    /\ Idle
    /\ \E failAt \in FailPoints, ld \in loadMigrations(backend, files) :
        LET r == handleList(backend, World, failAt, ld)
        IN Finish(r.w, "cli-list", r.steps, r.exit, r.msg)

\* the command line over a directory with well-formed and malformed files
NextCmd ==
    \/ DoCliMigrate
    \/ DoCliFresh
    \/ DoCliList
    \/ DoCliRollback
    \/ RemoveFile
    \/ Exit

SpecCmd == InitStore /\ [][NextCmd]_vars

\* ------------------------------------------------------------------------
\* Migration files are created one after the other
\* ------------------------------------------------------------------------

\* the names given to CreateMigration
CreateNames ==
    { <<"c", "r", "e", "a", "t", "e", "_", "u", "s", "e", "r", "s", "_", "t", "a", "b", "l", "e">>,
      <<"a", "d", "d", "_", "u", "s", "e", "r", "s", "_", "t", "a", "b", "l", "e">>,
      <<"c", "r", "e", "a", "t", "e", "_", "u", "s", "e", "r", "_", "c", "o", "m", "m", "e", "n", "t", "s", "_", "t", "a", "b", "l", "e">>,
      <<"a", "d", "d", "_", "u", "s", "e", "r", "_", "c", "o", "m", "m", "e", "n", "t", "s", "_", "t", "a", "b", "l", "e">>,
      <<"c", "r", "e", "a", "t", "e", "_", "U", "s", "e", "r", "C", "o", "m", "m", "e", "n", "t", "s", "_", "t", "a", "b", "l", "e">>,
      <<"c", "r", "e", "a", "t", "e", "_", "o", "r", "d", "e", "r", "s", "_", "t", "a", "b", "l", "e">> }

\* the files the directory holds at most
MaxFiles == 3

\* time.Now().Format("20060102150405"): a later time stamp for each file
NextStamp(dir) == Stamp(DigitChars[Cardinality(dir) + 2])

InitCreate ==
    /\ backend \in Packages
    /\ subdir = TRUE
    /\ conf = NoFile
    /\ files = {}
    /\ ledgerExists = FALSE
    /\ ledger = <<>>
    /\ schema = {}
    /\ upDone = {}
    /\ partialDrop = FALSE
    /\ run = NoRun
    /\ prev = NoPrev
    /\ procs = NoProcs

\* CreateMigration(name)
DoCreateMigration ==
    /\ Idle
    /\ Cardinality(files) < MaxFiles
    /\ \E name \in CreateNames :
        \E r \in CreateMigration(backend, files, NextStamp(files), name) :
            /\ files' = r.dir
            /\ run' = [NoRun EXCEPT !.op = "CreateMigration", !.err = r.err,
                                    !.exit = IF r.err = "ok" THEN 0 ELSE 1,
                                    !.msg = Str(name)]
    /\ UNCHANGED <<backend, subdir, conf, ledgerExists, ledger, schema, upDone, partialDrop, prev, procs>>

NextCreate ==
    \/ DoCreateMigration
    \/ Exit

SpecCreate == InitCreate /\ [][NextCreate]_vars

\* time.Now().Format("20060102150405") has a resolution of one second: the
\* time stamp of the file written last, when no second has passed since,
\* or a later one
StampsNow(dir) ==
    {NextStamp(dir)} \cup
        (IF dir = {} THEN {} ELSE {Stamp(DigitChars[Cardinality(dir) + 1])})

\* CreateMigration(name), at any time after the file before
DoCreateMigrationNow ==
    /\ Idle
    /\ Cardinality(files) < MaxFiles
    /\ \E name \in CreateNames, stamp \in StampsNow(files) :
        \E r \in CreateMigration(backend, files, stamp, name) :
            /\ files' = r.dir
            /\ run' = [NoRun EXCEPT !.op = "CreateMigration", !.err = r.err,
                                    !.exit = IF r.err = "ok" THEN 0 ELSE 1,
                                    !.msg = Str(name)] @@ [dir |-> files]
    /\ UNCHANGED <<backend, subdir, conf, ledgerExists, ledger, schema, upDone, partialDrop, prev, procs>>

NextClock ==
    \/ DoCreateMigrationNow
    \/ Exit

SpecClock == InitCreate /\ [][NextClock]_vars

\* a project before and after its sub-directory of migrations is made
InitFirst ==
    /\ backend \in Packages
    /\ subdir \in BOOLEAN
    /\ conf = NoFile
    /\ files = {}
    /\ ledgerExists = FALSE
    /\ ledger = <<>>
    /\ schema = {}
    /\ upDone = {}
    /\ partialDrop = FALSE
    /\ run = NoRun
    /\ prev = NoPrev
    /\ procs = NoProcs

\* CreateMigration(name), the sub-directory there or not
DoCreateFirst ==
    /\ Idle
    /\ Cardinality(files) < MaxFiles
    /\ \E name \in CreateNames :
        \E r \in CreateMigrationIn(backend, subdir, files, NextStamp(files), name) :
            /\ files' = r.dir
            /\ subdir' = r.exists
            /\ run' = [NoRun EXCEPT !.op = "CreateMigration", !.err = r.err,
                                    !.exit = IF r.err = "ok" THEN 0 ELSE 1,
                                    !.msg = Str(name)]
                          @@ [dir |-> files, subdir |-> subdir]
    /\ UNCHANGED <<backend, conf, ledgerExists, ledger, schema, upDone, partialDrop, prev, procs>>

NextFirst ==
    \/ DoCreateFirst
    \/ Exit

SpecFirst == InitFirst /\ [][NextFirst]_vars

\* ------------------------------------------------------------------------
\* Configurations are saved
\* ------------------------------------------------------------------------

\* the config types given to SaveConfig, one of them unknown
SaveTypes == ConfigTypes \cup {"sqlite"}

\* the configurations given to SaveConfig
SaveConfigs ==
    [kind : ConfigTypes, MigrationPath : {"", "migrations"}, Host : {"db1", "db2"}]

InitConf ==
    /\ backend \in Backends
    /\ subdir = FALSE
    /\ conf \in {NoFile, BadFile}
    /\ files = {}
    /\ ledgerExists = FALSE
    /\ ledger = <<>>
    /\ schema = {}
    /\ upDone = {}
    /\ partialDrop = FALSE
    /\ run = NoRun
    /\ prev = NoPrev
    /\ procs = NoProcs

\* SaveConfig(config, configType)
DoSaveConfig ==
    /\ Idle
    /\ \E config \in SaveConfigs, configType \in SaveTypes, mkdirOk, writeOk \in BOOLEAN :
        LET r == SaveConfig(conf, config, configType, mkdirOk, writeOk)
        IN /\ conf' = r.file
           /\ run' = [NoRun EXCEPT !.op = "SaveConfig", !.err = r.err,
                                   !.exit = IF r.err = "ok" THEN 0 ELSE 1,
                                   !.msg = configType]
                         @@ [config |-> config, conf |-> conf]
    /\ UNCHANGED <<backend, files, subdir, ledgerExists, ledger, schema, upDone, partialDrop,
                   prev, procs>>

\* the configuration file is deleted
RemoveConfig ==
    /\ Idle
    /\ conf.state # "missing"
    /\ conf' = NoFile
    /\ UNCHANGED <<backend, files, subdir, ledgerExists, ledger, schema, upDone, partialDrop,
                   run, prev, procs>>

NextConf ==
    \/ DoSaveConfig
    \/ RemoveConfig
    \/ Exit

SpecConf == InitConf /\ [][NextConf]_vars

\* ------------------------------------------------------------------------
\* Names are given to the migration verb
\* ------------------------------------------------------------------------

NamePrefixes == { <<"c", "r", "e", "a", "t", "e", "_">>,
                  <<"a", "d", "d", "_">>,
                  <<>>,
                  <<"C", "r", "e", "a", "t", "e", "_">> }

NameRemainders ==
    { <<"u", "s", "e", "r">>,
      <<"u", "s", "e", "r", "s">>,
      <<"s">>,
      <<>>,
      <<"U", "S", "E", "R", "S">>,
      <<"u", "s", "e", "r", "_", "c", "o", "m", "m", "e", "n", "t">>,
      <<"u", "s", "e", "r", "_", "c", "o", "m", "m", "e", "n", "t", "s">>,
      <<"u", "s", "e", "r", "s", "_", "c", "o", "m", "m", "e", "n", "t">>,
      <<"u", "s", "e", "r", "s", "_", "c", "o", "m", "m", "e", "n", "t", "s">>,
      <<"u", "s", "e", "r", "s", "_">>,
      <<"_", "u", "s", "e", "r", "s">>,
      <<"u", "s", "e", "r", "_", "p", "o", "s", "t", "_", "c", "o", "m", "m", "e", "n", "t", "s">>,
      <<"u", "s", "e", "r", "_", "p", "o", "s", "t", "s", "_", "c", "o", "m", "m", "e", "n", "t">> }

NameSuffixes == { <<"_", "t", "a", "b", "l", "e">>,
                  <<>>,
                  <<"_", "t", "a", "b", "l", "e", "s">>,
                  <<"_", "T", "a", "b", "l", "e">> }

\* the names given on the command line
ValidateNames ==
    {p \o r \o x : p \in NamePrefixes, r \in NameRemainders, x \in NameSuffixes}
        \cup {<<"c", "r", "e", "a", "t", "e", "_", "t", "a", "b", "l", "e">>}

\* the record of a run of the name validation
Validated(name, result) ==
    [NoRun EXCEPT !.op = "validateMigrationName", !.err = result,
                  !.exit = IF result = "ok" THEN 0 ELSE 1]
        @@ [name |-> name]

InitValidate ==
    /\ backend \in {"postgres", "cql"}
    /\ subdir = TRUE
    /\ conf = NoFile
    /\ files = {}
    /\ ledgerExists = FALSE
    /\ ledger = <<>>
    /\ schema = {}
    /\ upDone = {}
    /\ partialDrop = FALSE
    /\ run = NoRun
    /\ prev = NoPrev
    /\ procs = NoProcs

\* <backend>-migration <name>, up to the end of validateMigrationName
DoValidate ==
    /\ Idle
    /\ \E name \in ValidateNames : run' = Validated(name, validateMigrationName(name))
    /\ UNCHANGED <<backend, subdir, conf, files, ledgerExists, ledger, schema, upDone, partialDrop, prev, procs>>

NextValidate ==
    \/ DoValidate
    \/ Exit

SpecValidate == InitValidate /\ [][NextValidate]_vars

\* ------------------------------------------------------------------------
\* Migration files are added between runs
\* ------------------------------------------------------------------------

\* a migration file is put into the directory, of any version
AddFile ==
    /\ Idle
    /\ \E f \in Catalogue(backend) \ files : files' = files \cup {f}
    /\ prev' = NoPrev
    /\ UNCHANGED <<backend, subdir, conf, ledgerExists, ledger, schema, upDone, partialDrop, run, procs>>

NextLate ==
    \/ DoMigrate
    \/ DoRollbackLast
    \/ AddFile
    \/ Exit

SpecLate == Init /\ [][NextLate]_vars

\* ------------------------------------------------------------------------
\* A directory of hand-named files
\* ------------------------------------------------------------------------

InitNames ==
    /\ backend \in Backends
    /\ subdir = TRUE
    /\ conf = NoFile
    /\ files \in SUBSET OddCatalogue(backend)
    /\ ledgerExists = FALSE
    /\ ledger = <<>>
    /\ schema = {}
    /\ upDone = {}
    /\ partialDrop = FALSE
    /\ run = NoRun
    /\ prev = NoPrev
    /\ procs = NoProcs

NextNames ==
    \/ DoMigrate
    \/ DoRollbackLast
    \/ DoRollbackSteps
    \/ Exit

SpecNames == InitNames /\ [][NextNames]_vars

\* ------------------------------------------------------------------------
\* Commands are given to the program
\* ------------------------------------------------------------------------

\* the words before the "-" of a command given to an installation of b
DbWords(b) ==
    (IF b = "cql" THEN {<<"c", "q", "l">>, <<"c", "a", "s", "s", "a", "n", "d", "r", "a">>}
     ELSE IF b = "mysql" THEN {<<"m", "y", "s", "q", "l">>} ELSE {<<"p", "o", "s", "t", "g", "r", "e", "s">>})
        \cup {<<"s", "c", "y", "l", "l", "a">>}

\* the words after the "-", as the README and the Makefile write them
ActionWords ==
    { <<"m", "i", "g", "r", "a", "t", "i", "o", "n">>,
      <<"c", "r", "e", "a", "t", "e">>,
      <<"m", "i", "g", "r", "a", "t", "e">>,
      <<"f", "r", "e", "s", "h">>,
      <<"l", "i", "s", "t">>,
      <<"r", "o", "l", "l", "b", "a", "c", "k">>,
      <<"r", "o", "l", "l", "b", "a", "c", "k", ":", "a", "l", "l">>,
      <<"r", "o", "l", "l", "b", "a", "c", "k", ":", "2">>,
      <<"i", "n", "i", "t">>,
      <<"c", "r", "e", "a", "t", "e", "-", "d", "b">>,
      <<"c", "r", "e", "a", "t", "e", "-", "u", "s", "e", "r", ":", "r", "e", "a", "d">>,
      <<"c", "r", "e", "a", "t", "e", "-", "u", "s", "e", "r">>,
      <<"c", "r", "e", "a", "t", "e", "-", "k", "e", "y", "s", "p", "a", "c", "e", ":", "S", "i", "m", "p", "l", "e", "S", "t", "r", "a", "t", "e", "g", "y", ":", "3">>,
      <<"g", "r", "a", "n", "t", ":", "r", "e", "a", "d">>,
      <<"s", "t", "a", "t", "u", "s">> }

Commands(b) ==
    {d \o <<"-">> \o a : d \in DbWords(b), a \in ActionWords}
        \cup {<<"c", "o", "n", "f", "i", "g">>, <<"v", "e", "r", "s", "i", "o", "n">>, <<>>}

\* the names given after a migration or create command
ArgNames ==
    { <<"c", "r", "e", "a", "t", "e", "_", "u", "s", "e", "r", "s", "_", "t", "a", "b", "l", "e">>,
      <<"c", "r", "e", "a", "t", "e", "_", "o", "r", "d", "e", "r", "s", "_", "t", "a", "b", "l", "e">>,
      <<"c", "r", "e", "a", "t", "e", "_", "u", "s", "e", "r", "_", "t", "a", "b", "l", "e">>,
      <<"u", "s", "e", "r", "s">> }

ReadsName(command) ==
    HasSuffix(command, <<"-", "m", "i", "g", "r", "a", "t", "i", "o", "n">>) \/ HasSuffix(command, <<"-", "c", "r", "e", "a", "t", "e">>)

ReadsAnswer(command) == HasSuffix(command, <<"-", "f", "r", "e", "s", "h">>)

\* what a command reads besides its text: the arguments, the answer to the
\* question of fresh, the order of the tables and rows the database lists,
\* the loaded directory
MainInputs(command) ==
    [args   : IF ReadsName(command) THEN {<<>>} \cup {<<n>> : n \in ArgNames} ELSE {<<>>},
     failAt : {0},
     answer : IF ReadsAnswer(command) THEN Answers ELSE {<<>>},
     order  : IF ReadsAnswer(command) THEN Perms(DropSet(backend, World))
              ELSE {<<>>},
     rows   : SortDescending(ledger),
     ld     : loadMigrations(backend, files)]

InitMain ==
    /\ backend \in Backends
    /\ subdir = TRUE
    /\ conf = NoFile
    /\ files = {}
    /\ ledgerExists = FALSE
    /\ ledger = <<>>
    /\ schema = {}
    /\ upDone = {}
    /\ partialDrop = FALSE
    /\ run = NoRun
    /\ prev = NoPrev
    /\ procs = NoProcs

\* one run of the program
DoMain ==
    /\ Idle
    /\ Cardinality(files) < MaxFiles
    /\ \E command \in Commands(backend) :
        \E in \in MainInputs(command) :
        \E r \in main(command, in.args, World, files, NextStamp(files), in) :
            /\ ledgerExists' = r.w.ledgerExists
            /\ ledger' = r.w.ledger
            /\ schema' = r.w.schema
            /\ upDone' = r.w.upDone
            /\ partialDrop' = r.w.partialDrop
            /\ files' = r.dir
            /\ run' = [NoRun EXCEPT !.op = "main", !.err = r.w.err, !.exit = r.exit,
                                    !.msg = r.to, !.log = r.w.log, !.pre = Snapshot]
                          @@ [command |-> Str(command), args |-> in.args,
                              validated |-> r.validated, dir |-> files]
    /\ UNCHANGED <<backend, subdir, conf, prev, procs>>

NextMain ==
    \/ DoMain
    \/ Exit

SpecMain == InitMain /\ [][NextMain]_vars

\* ------------------------------------------------------------------------
\* Two Migrate processes on one database, one database call per step
\* ------------------------------------------------------------------------

Other(p) == CHOOSE q \in Procs : q # p

\* SELECT COUNT(*) FROM migrations WHERE version = v, on the committed rows
CountRows(rows, v) == Len(SelectSeq(rows, LAMBDA row : row.version = v))

\* a check that finds every version not applied
isMigrationAppliedNever(rows, v) == FALSE

\* isMigrationApplied: count > 0
isMigrationApplied(rows, v) == CountRows(rows, v) > 0

\* the tables an Exec of these statements creates
Created(stmts) == {stmts[k].tbl : k \in {j \in 1..Len(stmts) : stmts[j].op = "create"}}

\* the loop goes to the next migration, or ends
Advance(pr) ==
    [pr EXCEPT !.todo = Tail(@), !.i = 0, !.tx = NoTx,
               !.pc = IF Len(pr.todo) = 1 THEN "done" ELSE "check"]

\* the process returns the error; the deferred Rollback drops its transaction
Failed(pr, kind) == [pr EXCEPT !.pc = "failed", !.err = kind, !.tx = NoTx]

InitRace ==
    /\ backend \in Backends
    /\ subdir = TRUE
    /\ conf = NoFile
    /\ files \in SUBSET Catalogue(backend)
    /\ ledgerExists = FALSE
    /\ ledger = <<>>
    /\ schema = {}
    /\ upDone = {}
    /\ partialDrop = FALSE
    /\ run = NoRun
    /\ prev = NoPrev
    /\ procs = [p \in Procs |-> [NoProc EXCEPT !.pc = "createTable"]]

\* Migrate: createMigrationsTable
CreateTableStep(p) ==
    /\ procs[p].pc = "createTable"
    /\ ledgerExists' = createMigrationsTable(World, 0).ledgerExists
    /\ procs' = [procs EXCEPT ![p].pc = "load"]
    /\ UNCHANGED <<backend, subdir, conf, files, ledger, schema, upDone, partialDrop, run, prev>>

\* Migrate: loadMigrations
LoadStep(p) ==
    /\ procs[p].pc = "load"
    /\ \E ld \in loadMigrations(backend, files) :
        procs' = [procs EXCEPT ![p] =
                     IF ld.err # "ok" THEN Failed(@, ld.err)
                     ELSE [@ EXCEPT !.todo = ld.migs,
                                    !.pc = IF ld.migs = <<>> THEN "done" ELSE "check"]]
    /\ UNCHANGED <<backend, subdir, conf, files, ledgerExists, ledger, schema, upDone, partialDrop, run, prev>>

\* isMigrationApplied for the current migration: an applied one is skipped
CheckStep(p) ==
    /\ procs[p].pc = "check"
    /\ LET v == Head(procs[p].todo).Version
       IN procs' = [procs EXCEPT ![p] =
                       IF isMigrationApplied(ledger, v) THEN Advance(@)
                       ELSE [@ EXCEPT !.saw = CountRows(ledger, v), !.i = 1,
                                      !.pc = IF Transactional(backend) THEN "begin"
                                             ELSE "exec"]]
    /\ UNCHANGED <<backend, subdir, conf, files, ledgerExists, ledger, schema, upDone, partialDrop, run, prev>>

\* db.Begin
BeginStep(p) ==
    /\ procs[p].pc = "begin"
    /\ procs' = [procs EXCEPT ![p].tx = [NoTx EXCEPT !.open = TRUE], ![p].pc = "exec"]
    /\ UNCHANGED <<backend, subdir, conf, files, ledgerExists, ledger, schema, upDone, partialDrop, run, prev>>

\* one Exec of the up-script: the whole script on postgres, one statement
\* on mysql and cql. A table that the open transaction of the other process
\* has created is locked: postgres ends the Exec with an error, mysql waits.
ExecStep(p) ==
    /\ procs[p].pc = "exec"
    /\ LET m     == Head(procs[p].todo)
           stmts == Statements(m.Up)
           sent  == IF backend = "postgres" THEN stmts ELSE <<stmts[procs[p].i]>>
           last  == backend = "postgres" \/ procs[p].i = Len(stmts)
           held  == Created(sent) \cap procs[Other(p)].tx.schema # {}
           after == [procs[p] EXCEPT !.i = @ + 1,
                                     !.ran = IF last THEN @ \cup {m.Version} ELSE @,
                                     !.pc = IF last THEN "insert" ELSE "exec"]
       IN IF backend = "cql"
          THEN /\ schema' = ExecEffects(schema, sent)
               /\ procs' = [procs EXCEPT ![p] = after]
          ELSE /\ ~(backend = "mysql" /\ held)
               /\ procs' = [procs EXCEPT ![p] =
                               IF held THEN Failed(@, "exec")
                               ELSE [after EXCEPT !.tx.schema =
                                        ExecEffects(@, sent) \ schema]]
               /\ UNCHANGED schema
    /\ UNCHANGED <<backend, subdir, conf, files, ledgerExists, ledger, upDone, partialDrop, run, prev>>

\* INSERT INTO migrations: written at once on cql; on postgres and mysql a
\* row of the transaction. mysql waits for the open transaction that holds a
\* row of the same key.
InsertStep(p) ==
    /\ procs[p].pc = "insert"
    /\ LET m == Head(procs[p].todo)
           r == insertLedger(backend, World, 0, m)
       IN IF backend = "cql"
          THEN /\ ledger' = r.ledger
               /\ procs' = [procs EXCEPT ![p] = Advance(@)]
          ELSE /\ ~(backend = "mysql" /\ HasVersion(procs[Other(p)].tx.rows, m.Version))
               /\ procs' = [procs EXCEPT ![p] =
                               IF r.err # "ok" THEN Failed(@, r.err)
                               ELSE [@ EXCEPT !.tx.rows = Append(@, r.ledger[Len(r.ledger)]),
                                              !.pc = "commit"]]
               /\ UNCHANGED ledger
    /\ UNCHANGED <<backend, subdir, conf, files, ledgerExists, schema, upDone, partialDrop, run, prev>>

\* tx.Commit: the tables and rows of the transaction become the database's
CommitStep(p) ==
    /\ procs[p].pc = "commit"
    /\ schema' = schema \cup procs[p].tx.schema
    /\ ledger' = ledger \o procs[p].tx.rows
    /\ procs' = [procs EXCEPT ![p] = Advance(@)]
    /\ UNCHANGED <<backend, subdir, conf, files, ledgerExists, upDone, partialDrop, run, prev>>

NextRace ==
    \E p \in Procs :
        \/ CreateTableStep(p)
        \/ LoadStep(p)
        \/ CheckStep(p)
        \/ BeginStep(p)
        \/ ExecStep(p)
        \/ InsertStep(p)
        \/ CommitStep(p)

SpecRace == InitRace /\ [][NextRace]_vars

\* ------------------------------------------------------------------------
\* Reading the state and the record of the last run
\* ------------------------------------------------------------------------

LedgerVersions(l) == {l[i].version : i \in 1..Len(l)}

LoadedFiles == {f \in files : parseFile(backend, f).kind = "ok"}

VersionOfFile(f) == parseFile(backend, f).mig.Version

FileOfVersion(v) == CHOOSE f \in LoadedFiles : VersionOfFile(f) = v

\* the versions whose up-script is executed and not reversed
UpDoneVersions ==
    {VersionOfFile(f) : f \in {g \in AllFiles(backend) : g.fname \in upDone}}

Events(kind) == SelectSeq(run.log, LAMBDA e : e.ev = kind)

ExecEvents(dir) == SelectSeq(run.log, LAMBDA e : e.ev = "exec" /\ e.dir = dir)

EventVersions(evs) == [i \in 1..Len(evs) |-> evs[i].ver]

Ascending(vs) == \A i, j \in 1..Len(vs) : i < j => VLess(vs[i], vs[j])

Descending(vs) == \A i, j \in 1..Len(vs) : i < j => VLess(vs[j], vs[i])

\* the tables the up-script of file f creates
UpTables(f) == {st.tbl : st \in {x \in Range(Statements(f.up)) : x.op = "create"}}

\* the user tables after the up-scripts of the versions vs, in order
RECURSIVE UpEffects(_, _)
UpEffects(tables, vs) ==
    IF vs = <<>> THEN tables
    ELSE UpEffects(ExecEffects(tables, Statements(FileOfVersion(Head(vs)).up)), Tail(vs))

MigrateRun == run.op \in {"Migrate", "MigrateFresh"}

\* the run failed while applying a migration: the last migration it began
\* to apply was not completed
ApplyFailed ==
    /\ MigrateRun
    /\ run.err # "ok"
    /\ Events("migrating") # <<>>
    /\ Len(Events("done")) < Len(Events("migrating"))

FailedVersion == Events("migrating")[Len(Events("migrating"))].ver

\* ------------------------------------------------------------------------
\* C1
\* ------------------------------------------------------------------------

C2_FailedApplyLeavesNothing ==
    (Transactional(backend) /\ ApplyFailed) =>
        LET began  == EventVersions(Events("migrating"))
            before == SubSeq(began, 1, Len(began) - 1)
            base   == IF run.op = "MigrateFresh" THEN {} ELSE run.pre.schema
        IN /\ ~HasVersion(ledger, FailedVersion)
           /\ schema = UpEffects(base, before)

\* the second statement of a three-statement up-script failed in a
\* transaction, after another migration was applied in the same run
C2_Witness ==
    /\ Transactional(backend)
    /\ ApplyFailed
    /\ run.op = "Migrate"
    /\ Len(Events("done")) = 1
    /\ Len(Statements(FileOfVersion(FailedVersion).up)) = 3
    /\ run.err \in {"exec", "ledger", "tx"}

\* ------------------------------------------------------------------------
\* C3
\* ------------------------------------------------------------------------

\* this run is a Migrate that directly follows a successful Migrate
SecondMigrate == run.op = "Migrate" /\ run.after.migrated

\* C3: a Migrate run directly after a successful Migrate executes no
\* up-script statement, writes no ledger row, leaves ledger and user tables
\* as they were and, when it succeeds, reports every loaded migration as
\* already applied.
C3_SecondMigrateIdempotent ==
    SecondMigrate =>
        /\ ExecEvents("up") = <<>>
        /\ Events("insert") = <<>>
        /\ ledger = run.pre.ledger
        /\ schema = run.pre.schema
        /\ run.err = "ok" =>
               {e.ver : e \in Range(Events("skipped"))}
                   = {VersionOfFile(f) : f \in LoadedFiles}

\* ------------------------------------------------------------------------
\* C4
\* ------------------------------------------------------------------------

\* C4: when <backend>-rollback:all reports success, the down-script of
\* every version that was applied has been executed and the ledger is empty.
C4_RollbackAllEmptiesLedger ==
    (run.op = "cli-rollback" /\ run.msg = "rolled back all" /\ run.exit = 0) =>
        /\ ledger = <<>>
        /\ {e.ver : e \in Range(Events("rolledback"))} = LedgerVersions(run.pre.ledger)

\* ------------------------------------------------------------------------
\* C5
\* ------------------------------------------------------------------------

\* an up-script statement failed in this Migrate run
UpScriptFailed ==
    /\ ApplyFailed
    /\ run.err = "exec"

\* C5: when the up-script of migration k fails in a Migrate run, the run
\* attempts no migration of a higher version (nothing at all after the
\* failing statement), and every migration the run applied before k has
\* its ledger entry and the tables its up-script creates.
C5_FailureStopsTheQueue ==
    UpScriptFailed =>
        /\ \A i \in 1..Len(run.log) : ~VLess(FailedVersion, run.log[i].ver)
        /\ LET last == run.log[Len(run.log)]
           IN last.ev = "exec" /\ ~last.ok /\ last.ver = FailedVersion
        /\ \A e \in Range(Events("done")) :
               /\ HasVersion(ledger, e.ver)
               /\ UpTables(FileOfVersion(e.ver)) \subseteq schema

\* the second of three migrations failed: one applied before, one pending
C5_Witness ==
    /\ UpScriptFailed
    /\ run.op = "Migrate"
    /\ Len(Events("done")) = 1
    /\ Cardinality(LoadedFiles) = 3
    /\ \E f \in LoadedFiles : VLess(FailedVersion, VersionOfFile(f))
    /\ Len(ledger) = Len(run.pre.ledger) + 1

\* ------------------------------------------------------------------------
\* C6
\* ------------------------------------------------------------------------

\* C6: within one Migrate run the migrations are applied in strictly
\* ascending version order: the versions the run begins to apply ascend,
\* and so do the versions of the up-script statements it executes.
C6_AppliedInAscendingOrder ==
    MigrateRun =>
        /\ Ascending(EventVersions(Events("migrating")))
        /\ \A i, j \in 1..Len(ExecEvents("up")) :
               i < j => ~VLess(ExecEvents("up")[j].ver, ExecEvents("up")[i].ver)

\* a run that applied three migrations
C6_Witness ==
    /\ run.op = "Migrate"
    /\ run.err = "ok"
    /\ Len(Events("done")) = 3

\* ------------------------------------------------------------------------
\* C7
\* ------------------------------------------------------------------------

\* the up-script statements that failed in the run
FailedUp == SelectSeq(ExecEvents("up"), LAMBDA e : ~e.ok)

\* the up-script statement that failed
FailedExec == FailedUp[1]

\* on cql the run failed on the second of the three statements of an
\* up-script
SecondOfThreeFailed ==
    /\ backend = "cql"
    /\ MigrateRun
    /\ run.err = "exec"
    /\ FailedUp # <<>>
    /\ LET stmts == Statements(FileOfVersion(FailedExec.ver).up)
       IN Len(stmts) = 3 /\ FailedExec.stmts = <<stmts[2]>>

\* C7: on the cql backend, when the second of three up-script statements
\* fails, the table the first statement creates is in place, the third
\* statement is never executed, and the ledger gets no entry for that
\* version.
C7_PartialApplyOnCql ==
    SecondOfThreeFailed =>
        LET v     == FailedExec.ver
            stmts == Statements(FileOfVersion(v).up)
            execs == SelectSeq(ExecEvents("up"), LAMBDA e : e.ver = v)
        IN /\ stmts[1].tbl \in schema
           /\ [i \in 1..Len(execs) |-> execs[i].stmts] = << <<stmts[1]>>, <<stmts[2]>> >>
           /\ execs[1].ok
           /\ stmts[3].tbl \in schema => stmts[3].tbl \in run.pre.schema
           /\ ~HasVersion(ledger, v)
           /\ \A e \in Range(Events("insert")) : e.ver # v

C7_Witness ==
    /\ SecondOfThreeFailed
    /\ run.op = "Migrate"
    /\ "posts" \in schema
    /\ "tags" \notin schema
    /\ Len(ledger) = 1

\* ------------------------------------------------------------------------
\* C8
\* ------------------------------------------------------------------------

\* the version of the newest ledger row before this run
NewestBefore == run.pre.ledger[Len(run.pre.ledger)].version

\* a successful Migrate applied exactly one version, and the rollback run
\* that followed it directly rolled exactly that version back
AppliedThenRolledBack ==
    /\ run.op \in {"RollbackLast", "RollbackSteps"}
    /\ run.err = "ok"
    /\ run.after.migrated
    /\ run.pre.ledger # <<>>
    /\ SubSeq(run.pre.ledger, 1, Len(run.pre.ledger) - 1) = run.after.ledger
    /\ ~HasVersion(run.after.ledger, NewestBefore)
    /\ EventVersions(Events("rolledback")) = <<NewestBefore>>

\* C8: applying a pending version V and then rolling V back, both without
\* error, leaves the ledger as it was before the apply: V absent, every
\* other row unchanged.
C8_ApplyRollbackRoundTrip ==
    AppliedThenRolledBack =>
        /\ ledger = run.after.ledger
        /\ ~HasVersion(ledger, NewestBefore)

C8_Witness ==
    /\ AppliedThenRolledBack
    /\ run.op = "RollbackLast"
    /\ Len(ledger) = 2

\* ------------------------------------------------------------------------
\* C9
\* ------------------------------------------------------------------------

\* the n highest versions of ledger l
Highest(l, n) ==
    {v \in LedgerVersions(l) :
        Cardinality({u \in LedgerVersions(l) : VLess(v, u)}) < n}

\* the statements of the down-scripts of the versions vs, in order
RECURSIVE DownScripts(_)
DownScripts(vs) ==
    IF vs = <<>> THEN <<>>
    ELSE Statements(FileOfVersion(Head(vs)).down) \o DownScripts(Tail(vs))

\* RollbackSteps(n) ran with 1 <= n <= number of applied versions and
\* returned no error
RolledBackSteps ==
    /\ run.op = "RollbackSteps"
    /\ 1 <= run.steps
    /\ run.steps <= Len(run.pre.ledger)
    /\ run.err = "ok"

\* C9: RollbackSteps(n) with 1 <= n <= number of applied versions, when it
\* returns no error, has removed exactly the n highest applied versions from
\* the ledger, has executed their down-scripts in descending version order,
\* and has left every other ledger row as it was.
C9_RollbackStepsTakesHighest ==
    RolledBackSteps =>
        LET top  == Highest(run.pre.ledger, run.steps)
            back == EventVersions(Events("rolledback"))
        IN /\ Cardinality(top) = run.steps
           /\ ledger = SelectSeq(run.pre.ledger, LAMBDA row : row.version \notin top)
           /\ Len(back) = run.steps
           /\ Range(back) = top
           /\ Descending(back)
           /\ [i \in 1..Len(ExecEvents("down")) |-> ExecEvents("down")[i].stmts[1]]
                  = DownScripts(back)
           /\ \A e \in Range(ExecEvents("down")) : e.ok /\ Len(e.stmts) = 1

\* two of three applied versions rolled back
C9_Witness ==
    /\ RolledBackSteps
    /\ run.steps = 2
    /\ Len(run.pre.ledger) = 3
    /\ Len(ledger) = 1

\* ------------------------------------------------------------------------
\* C10
\* ------------------------------------------------------------------------

\* a record of a run without its notes
WithoutNotes(log) == SelectSeq(log, LAMBDA e : e.ev # "note")

\* the results of two runs are the same but for the notes
SameButNotes(a, b) ==
    /\ a.ledger = b.ledger
    /\ a.ledgerExists = b.ledgerExists
    /\ a.schema = b.schema
    /\ a.err = b.err
    /\ a.calls = b.calls
    /\ WithoutNotes(a.log) = WithoutNotes(b.log)

\* RollbackSteps(n) ran with n above the number of applied versions
ExcessSteps ==
    /\ run.op = "RollbackSteps"
    /\ run.steps > Len(run.pre.ledger)

\* C10: RollbackSteps(n) with n above the number of applied migrations
\* does, from every reachable database and with every failing database
\* call, what RollbackSteps(number applied) does, but for a note; and a run
\* of it has printed the note ("No migrations to rollback" when nothing is
\* applied), and when it returned no error it has rolled back every applied
\* migration, highest first, and left the ledger empty.
C10_ExcessStepsAsCount ==
    /\ Idle =>
          \A failAt \in FailPoints, order \in SortDescending(ledger) :
              \A steps \in (Len(ledger) + 1)..MaxSteps :
                  SameButNotes(RollbackSteps(backend, World, failAt, steps, files, order),
                               RollbackSteps(backend, World, failAt, Len(ledger), files, order))
    /\ (ExcessSteps /\ run.err # "ledger") =>
          /\ Len(Events("note")) = (IF run.pre.ledger = <<>> THEN 0 ELSE 1)
          /\ Len(Events("nomigrations")) = (IF run.pre.ledger = <<>> THEN 1 ELSE 0)
          /\ run.log[1].ev \in {"note", "nomigrations"}
    /\ (ExcessSteps /\ run.err = "ok") =>
          /\ ledger = <<>>
          /\ Range(EventVersions(Events("rolledback"))) = LedgerVersions(run.pre.ledger)
          /\ Descending(EventVersions(Events("rolledback")))

\* three steps asked with two migrations applied: both rolled back
C10_Witness ==
    /\ ExcessSteps
    /\ run.steps = 3
    /\ Len(run.pre.ledger) = 2
    /\ run.err = "ok"
    /\ ledger = <<>>
    /\ Len(Events("note")) = 1

\* ------------------------------------------------------------------------
\* C11
\* ------------------------------------------------------------------------

RollbackRun == run.op \in {"RollbackLast", "RollbackSteps"}

\* the versions the rollback run was asked to roll back: the highest applied
\* one, or the n highest
ToRollBack ==
    Highest(run.pre.ledger, IF run.op = "RollbackLast" THEN 1 ELSE run.steps)

\* the file of a ledger row is not in the directory
FileMissing(row) == FileNamed(files, RowFileName(backend, row)) = {}

\* C11: when the file of an applied version that a rollback-last or
\* rollback-steps run is about to roll back is missing, the run returns an
\* error, executes no down-script statement for that version and leaves its
\* ledger row in place.
C11_MissingFileStopsRollback ==
    \A i \in 1..Len(run.pre.ledger) :
        LET row == run.pre.ledger[i]
        IN (RollbackRun /\ row.version \in ToRollBack /\ FileMissing(row)) =>
               /\ run.err # "ok"
               /\ \A e \in Range(ExecEvents("down")) : e.ver # row.version
               /\ \A e \in Range(Events("delete")) : e.ver # row.version
               /\ HasVersion(ledger, row.version)

\* rollback-last with two versions applied and the file of the higher gone
C11_Witness ==
    /\ run.op = "RollbackLast"
    /\ Len(run.pre.ledger) = 2
    /\ FileMissing(run.pre.ledger[2])
    /\ ~FileMissing(run.pre.ledger[1])
    /\ run.err = "notfound"
    /\ ledger = run.pre.ledger

\* ------------------------------------------------------------------------
\* C12
\* ------------------------------------------------------------------------

\* the files of the backend's extension with no or several down markers
Malformed == {f \in files : HasSuffix(f.fname, DotExt(backend)) /\ f.downMarkers # 1}

C13_LedgerEnsuredOnFirstUse ==
    (Idle /\ ~ledgerExists) =>
        \A ld \in loadMigrations(backend, files), order \in SortDescending(ledger) :
            /\ Migrate(backend, World, 0, ld).err # "ledger"
            /\ RollbackLast(backend, World, 0, ld).err # "ledger"
            /\ RollbackSteps(backend, World, 0, 1, files, order).err # "ledger"
            /\ ListMigrations(backend, World, 0, ld).err # "ledger"

\* ------------------------------------------------------------------------
\* C14
\* ------------------------------------------------------------------------

\* the tables the up-scripts of the loaded files create
CurrentTables == UNION {UpTables(f) : f \in LoadedFiles}

\* the tables for which the run made a DROP that succeeded
DroppedTables == {e.stmts[1].tbl : e \in {x \in Range(Events("drop")) : x.ok}}

\* C14: after a fresh reset that returned no error, every user table that
\* existed before it has been dropped (a table that no current file creates
\* is gone, and the engines that drop table by table have dropped each), and
\* the ledger holds exactly one row for each version of the loaded files and
\* no other row.
C14_FreshResetsEverything ==
    (run.op = "MigrateFresh" /\ run.err = "ok") =>
        /\ \A t \in run.pre.schema : t \in schema => t \in CurrentTables
        /\ backend # "postgres" => run.pre.schema \subseteq DroppedTables
        /\ schema = CurrentTables
        /\ LedgerVersions(ledger) = {VersionOfFile(f) : f \in LoadedFiles}
        /\ Len(ledger) = Cardinality(LoadedFiles)

\* ------------------------------------------------------------------------
\* C15
\* ------------------------------------------------------------------------

\* C15: on every backend, <backend>-fresh with an answer other than "y"
\* drops no table and applies no migration: from every reachable database
\* the handler makes no database call and leaves ledger and tables as they
\* are.
C15_FreshNeedsConfirmation ==
    Idle =>
        \A answer \in Answers, ld \in loadMigrations(backend, files),
           order \in Perms(DropSet(backend, World)) :
            ~Confirmed(answer) =>
                LET r == handleFresh(backend, World, 0, answer, order, ld)
                IN /\ r.w.calls = 0
                   /\ r.w.log = <<>>
                   /\ r.w.ledger = ledger
                   /\ r.w.ledgerExists = ledgerExists
                   /\ r.w.schema = schema

\* ------------------------------------------------------------------------
\* C16
\* ------------------------------------------------------------------------

CliRun == run.op \in {"cli-migrate", "cli-fresh", "cli-list", "cli-rollback"}

\* C16: whenever the engine function called by a CLI command returns an
\* error, the process ends with a non-zero exit status and a message.
C16_EngineErrorExitsNonZero ==
    (CliRun /\ run.err # "ok") => (run.exit # 0 /\ run.msg = "failed")

\* ------------------------------------------------------------------------
\* C17
\* ------------------------------------------------------------------------

\* the process is between its check of the current version and the record
InFlight(p) == procs[p].pc \in {"begin", "exec", "insert", "commit"}

\* C17: with two Migrate processes on one database and one directory, the
\* check and the record are separate calls: a process that is between them
\* found no row of its version at the check, whatever the other process has
\* done since, and a version whose up-script it has executed is one whose
\* check it passed. Both processes can so execute the same up-script.
C17_CheckThenActRace ==
    \A p \in Procs :
        /\ InFlight(p) => procs[p].saw = 0
        /\ (InFlight(p) /\ HasVersion(ledger, Head(procs[p].todo).Version))
               => Head(procs[p].todo).Version \in procs[Other(p)].ran
        /\ \A v \in procs[p].ran :
               \/ HasVersion(ledger, v)
               \/ procs[p].pc \in {"insert", "commit", "failed"}

\* both processes have executed the up-script of one version
C17_Witness ==
    \E f \in files :
        /\ \A p \in Procs : VersionOfFile(f) \in procs[p].ran
        /\ \A p \in Procs : procs[p].pc \in {"done", "failed"}
        /\ \A p \in Procs : procs[p].saw = 0

\* ------------------------------------------------------------------------
\* C18
\* ------------------------------------------------------------------------

\* C18: on every backend the ledger holds at most one row per version, also
\* after two Migrate runs at the same time.
C18_OneRowPerVersion ==
    \A i, j \in 1..Len(ledger) : ledger[i].version = ledger[j].version => i = j

\* ------------------------------------------------------------------------
\* C19
\* ------------------------------------------------------------------------

\* the name a file was created with
NameOfFile(f) == parseFile(backend, f).mig.Name

\* the normalized target table of a migration name
NormalizedTarget(name) == ToLowerText(extractTableName(name))

\* an existing migration file has the normalized target of the name
TargetExists(name) ==
    \E f \in files : NormalizedTarget(NameOfFile(f)) = NormalizedTarget(name)

\* C19: in every package's CreateMigration, a name whose normalized target
\* table equals that of an existing migration file is rejected with an
\* error and no file is written.
C19_DuplicateTargetRejected ==
    Idle =>
        \A name \in CreateNames :
            TargetExists(name) =>
                \A r \in CreateMigration(backend, files, NextStamp(files), name) :
                    r.err # "ok" /\ r.dir = files

\* ------------------------------------------------------------------------
\* C20
\* ------------------------------------------------------------------------

\* the text after the last "_" of s, or s when it has none
RECURSIVE LastWord(_)
LastWord(s) ==
    IF \E i \in 1..Len(s) : s[i] = "_" THEN LastWord(Tail(s)) ELSE s

\* the name starts with create_, ends with _table, and the last word of
\* what is between them ends in "s"
Accepted(name) ==
    /\ HasPrefix(name, PrefixCreate)
    /\ HasSuffix(name, SuffixTable)
    /\ LET rest == TrimSuffix(TrimPrefix(name, PrefixCreate), SuffixTable)
       IN LastWord(rest) # <<>> /\ LastWord(rest)[Len(LastWord(rest))] = "s"

ValidationRun == run.op = "validateMigrationName"

\* C20: the name validation accepts a name exactly when it starts with
\* create_, ends with _table and the last word between them ends in "s":
\* create_users_table and create_user_comments_table are accepted,
\* create_user_table and create_user_comment_table are rejected.
C20_PluralNameAccepted ==
    ValidationRun =>
        /\ (run.exit = 0) <=> Accepted(run.name)
        /\ run.name \in {PrefixCreate \o <<"u", "s", "e", "r", "s">> \o SuffixTable,
                         PrefixCreate \o <<"u", "s", "e", "r", "_", "c", "o", "m", "m", "e", "n", "t", "s">> \o SuffixTable}
               => run.exit = 0
        /\ run.name \in {PrefixCreate \o <<"u", "s", "e", "r">> \o SuffixTable,
                         PrefixCreate \o <<"u", "s", "e", "r", "_", "c", "o", "m", "m", "e", "n", "t">> \o SuffixTable}
               => run.exit = 1

\* the relation name with a singular first word is accepted
C20_Witness ==
    /\ ValidationRun
    /\ run.name = PrefixCreate \o <<"u", "s", "e", "r", "_", "c", "o", "m", "m", "e", "n", "t", "s">> \o SuffixTable
    /\ run.exit = 0

\* ------------------------------------------------------------------------
\* C21
\* ------------------------------------------------------------------------

MainRun == run.op = "main"

\* the command <db>-migration with a name, for the database of the installation
MigrationCommand ==
    /\ MainRun
    /\ run.command \in {"postgres-migration", "mysql-migration", "cql-migration"}
    /\ Len(run.args) = 1

\* the name's target table is that of a migration file of the directory
DuplicateName(name, dir) ==
    \E ld \in loadMigrations(backend, dir) :
        \E i \in 1..Len(ld.migs) :
            EqualFold(extractTableName(ld.migs[i].Name), extractTableName(name))

\* C21: on every backend, <backend>-migration <name> runs the name
\* validation and creates the migration file when the name is valid and no
\* duplicate; no command creates a migration file without the name
\* validation.
C21_MigrationVerbValidates ==
    /\ MigrationCommand => run.validated
    /\ (MigrationCommand /\ validateMigrationName(run.args[1]) = "ok"
           /\ ~DuplicateName(run.args[1], run.dir))
         => (run.msg = "CreateMigration" /\ run.exit = 0 /\ files # run.dir)
    /\ (MainRun /\ files # run.dir) => run.validated

\* ------------------------------------------------------------------------
\* C25
\* ------------------------------------------------------------------------

\* C25: the documented provisioning commands <db>-create-db,
\* <db>-create-user:<level> and cql-create-keyspace:<strategy>:<rf> reach
\* CreateDatabase, CreateUser and CreateKeyspace, not the usage message
\* with exit status 1.
C25_ProvisioningVerbsRouted ==
    MainRun =>
        /\ run.command \in {"postgres-create-db", "mysql-create-db"}
               => run.msg = "CreateDatabase"
        /\ run.command \in {"postgres-create-user:read", "mysql-create-user:read",
                            "cql-create-user:read", "cassandra-create-user:read"}
               => run.msg = "CreateUser"
        /\ run.command \in {"cql-create-keyspace:SimpleStrategy:3",
                            "cassandra-create-keyspace:SimpleStrategy:3"}
               => run.msg = "CreateKeyspace"

\* ------------------------------------------------------------------------
\* C22
\* ------------------------------------------------------------------------

\* RollbackLast returned no error on a ledger with rows
RolledBackLast ==
    /\ run.op = "RollbackLast"
    /\ run.err = "ok"
    /\ run.pre.ledger # <<>>

ListRun == run.op = "ListMigrations" /\ run.err = "ok"

\* the status lines it printed
StatusLines == SelectSeq(run.log, LAMBDA e : e.ev \in {"applied", "pending"})

\* the number of status lines printed for version v
LinesOf(v) == Cardinality({i \in 1..Len(StatusLines) : StatusLines[i].ver = v})

\* C23: List reports every migration file of the loaded set exactly once,
\* as applied when its version has a ledger entry and as pending otherwise;
\* a file that was applied, then rolled back by RollbackLast, and that still
\* exists, is reported as pending.
C23_ListReportsStatus ==
    ListRun =>
        /\ \E ld \in loadMigrations(backend, files) :
              /\ ld.err = "ok"
              /\ EventVersions(StatusLines) = [i \in 1..Len(ld.migs) |-> ld.migs[i].Version]
        /\ \A f \in LoadedFiles : LinesOf(VersionOfFile(f)) = 1
        /\ \A i \in 1..Len(StatusLines) :
              /\ StatusLines[i].ev = "applied" <=> HasVersion(ledger, StatusLines[i].ver)
              /\ StatusLines[i].ev = "pending" <=> ~HasVersion(ledger, StatusLines[i].ver)
        /\ \A f \in LoadedFiles :
              VersionOfFile(f) \in run.after.undone =>
                  \E i \in 1..Len(StatusLines) :
                      /\ StatusLines[i].ver = VersionOfFile(f)
                      /\ StatusLines[i].ev = "pending"

\* the list after a rollback: the rolled-back file is listed as pending,
\* another file as applied
C23_Witness ==
    /\ ListRun
    /\ \E f \in LoadedFiles :
          /\ VersionOfFile(f) \in run.after.undone
          /\ \E i \in 1..Len(StatusLines) :
                StatusLines[i].ver = VersionOfFile(f) /\ StatusLines[i].ev = "pending"
    /\ \E i \in 1..Len(StatusLines) : StatusLines[i].ev = "applied"

\* ------------------------------------------------------------------------
\* C24
\* ------------------------------------------------------------------------

\* a statement of an up-script failed in this run
UpStatementFailed == ApplyFailed /\ run.err = "exec"

\* words by which a message would say that the migration may be applied in
\* part
AtomicityWords ==
    {"atomic", "atomicity", "atomically", "non-atomic", "partial", "partially",
     "transaction", "transactional", "non-transactional"}

Mentions(text, words) == \E i \in 1..Len(text) : text[i] \in words

\* C24: when a statement of an up-script fails on cql, the error of the
\* Applier says that atomicity is not guaranteed, and differs from the
\* error the transactional backends give for the same failure.
C24_CqlFailureSaysNotAtomic ==
    (UpStatementFailed /\ backend = "cql") =>
        /\ Mentions(applyErrorf(backend), AtomicityWords)
        /\ \A b \in {c \in Backends : Transactional(c)} :
              applyErrorf(b) # applyErrorf(backend)

\* ------------------------------------------------------------------------
\* C26
\* ------------------------------------------------------------------------

\* the statements of a sequence of Exec calls, in the order sent
RECURSIVE SentIn(_)
SentIn(evs) == IF evs = <<>> THEN <<>> ELSE Head(evs).stmts \o SentIn(Tail(evs))

\* the up-statements sent for version v before position i of the output
SentBefore(v, i) ==
    SentIn(SelectSeq(SubSeq(run.log, 1, i - 1),
                     LAMBDA e : e.ev = "exec" /\ e.dir = "up" /\ e.ver = v))

\* C26: on every backend the Applier sends exactly the non-empty statements
\* of the up-script, in file order and with their text unchanged, and then
\* the ledger insert.
C26_UpStatementsSentUnchanged ==
    MigrateRun =>
        \A i \in 1..Len(run.log) :
            run.log[i].ev = "insert" =>
                /\ SentBefore(run.log[i].ver, i)
                       = Statements(FileOfVersion(run.log[i].ver).up)
                /\ SentBefore(run.log[i].ver, Len(run.log) + 1)
                       = SentBefore(run.log[i].ver, i)

\* ------------------------------------------------------------------------
\* C27
\* ------------------------------------------------------------------------

\* what the run printed while rolling back
DownEvents == SelectSeq(run.log, LAMBDA e : e.dir = "down" /\ e.ev \in {"exec", "delete"})

\* the run failed inside rollbackMigration: on a down statement, on the
\* DELETE, or on the Commit after them
RollbackFailed ==
    /\ run.op \in {"RollbackLast", "RollbackSteps"}
    /\ run.err \in {"exec", "ledger", "tx"}
    /\ DownEvents # <<>>
    /\ \/ ~DownEvents[Len(DownEvents)].ok
       \/ /\ run.err = "tx"
          /\ DownEvents[Len(DownEvents)].ev = "delete"
          /\ \A i \in 1..Len(run.log) :
                run.log[i].ev = "rolledback"
                    => run.log[i].ver # DownEvents[Len(DownEvents)].ver

\* the version whose rollback failed
FailedRollback == DownEvents[Len(DownEvents)].ver

\* the down statements executed with success in this run, in order
DownExecuted(keep(_)) ==
    SentIn(SelectSeq(run.log, LAMBDA e : e.ev = "exec" /\ e.dir = "down" /\ e.ok /\ keep(e.ver)))

\* C27: when a down statement, the DELETE or the Commit fails while version
\* V is rolled back, V's ledger entry is still present; on postgres and
\* mysql the schema is that before the attempt on V (the statements of V
\* are undone), on cql the statements executed stay in effect.
C27_FailedRollbackKeepsEntry ==
    RollbackFailed =>
        /\ HasVersion(ledger, FailedRollback)
        /\ \A i \in 1..Len(run.pre.ledger) :
              ~VLess(FailedRollback, run.pre.ledger[i].version)
                  => HasVersion(ledger, run.pre.ledger[i].version)
        /\ Transactional(backend) =>
              schema = ExecEffects(run.pre.schema,
                                   DownExecuted(LAMBDA v : v # FailedRollback))
        /\ (Transactional(backend) /\ run.op = "RollbackLast") =>
              /\ schema = run.pre.schema
              /\ ledger = run.pre.ledger
        /\ ~Transactional(backend) =>
              schema = ExecEffects(run.pre.schema, DownExecuted(LAMBDA v : TRUE))

\* a rollback on a transactional backend fails after a down statement was
\* executed: the table that statement dropped is still there
C27_Witness ==
    /\ RollbackFailed
    /\ Transactional(backend)
    /\ DownExecuted(LAMBDA v : v = FailedRollback) # <<>>
    /\ \E i \in 1..Len(DownExecuted(LAMBDA v : v = FailedRollback)) :
          DownExecuted(LAMBDA v : v = FailedRollback)[i].tbl \in schema

\* ------------------------------------------------------------------------
\* C28
\* ------------------------------------------------------------------------

ResetRun == run.op = "MigrateFresh"

\* position i of the output is a DROP of table tbl that succeeded
DroppedAt(i, tbl) ==
    /\ run.log[i].ev = "drop"
    /\ run.log[i].ok
    /\ run.log[i].stmts = <<Drop(tbl)>>

\* the Applier was invoked: the run went on to Migrate after the drops
ApplierInvoked == \E i \in 1..Len(run.log) : run.log[i].dir = "up"

\* a DROP of the reset failed
DropFailed == \E i \in 1..Len(run.log) : run.log[i].ev = "drop" /\ ~run.log[i].ok

\* C28: in a fresh reset the ledger table is dropped only after every user
\* table has been dropped, the Applier is invoked only after the drops;
\* when a drop fails, the Applier is not invoked and the ledger table still
\* exists with its entries.
C28_LedgerTableDroppedLast ==
    ResetRun =>
        /\ \A i \in 1..Len(run.log) :
              DroppedAt(i, LedgerTable) =>
                  \A t \in run.pre.schema : \E j \in 1..(i - 1) : DroppedAt(j, t)
        /\ ApplierInvoked => ~DropFailed
        /\ DropFailed =>
              /\ ~ApplierInvoked
              /\ ledgerExists = run.pre.ledgerExists
              /\ ledger = run.pre.ledger

\* ------------------------------------------------------------------------
\* C29
\* ------------------------------------------------------------------------

\* the versions RollbackSteps set out to roll back, in the order of its loop
Attempted == EventVersions(Events("rollback"))

\* RollbackSteps failed in its loop, on the last version it set out on
StepFailed ==
    /\ run.op = "RollbackSteps"
    /\ run.err # "ok"
    /\ Attempted # <<>>

\* C29: when step k of RollbackSteps(n) fails, the k-1 higher versions
\* rolled back before it stay rolled back, no lower version is attempted,
\* and the entries of the failing version and of all lower versions remain.
C29_FailedStepStopsRollback ==
    StepFailed =>
        LET k      == Len(Attempted)
            before == SubSeq(Attempted, 1, k - 1)
        IN /\ Descending(Attempted)
           /\ Range(Attempted) = Highest(run.pre.ledger, k)
           /\ EventVersions(Events("rolledback")) = before
           /\ \A i \in 1..(k - 1) : ~HasVersion(ledger, before[i])
           /\ \A i \in 1..Len(run.pre.ledger) :
                 run.pre.ledger[i].version \notin Range(before)
                     => HasVersion(ledger, run.pre.ledger[i].version)
           /\ ledger = SelectSeq(run.pre.ledger,
                                 LAMBDA row : row.version \notin Range(before))
           /\ \A i \in 1..Len(run.log) :
                 run.log[i].dir = "down" /\ run.log[i].ev \in {"rollback", "exec", "delete"}
                     => ~VLess(run.log[i].ver, Attempted[k])

\* the second of three steps fails: the highest version is rolled back,
\* the second and the third keep their entries
C29_Witness ==
    /\ StepFailed
    /\ Len(run.pre.ledger) = 3
    /\ Len(Attempted) = 2
    /\ run.steps \notin {1, 2}
    /\ Len(ledger) = 2

\* ------------------------------------------------------------------------
\* C30
\* ------------------------------------------------------------------------

\* the ledger rows RollbackSteps(n) was asked to roll back: the n highest
FirstEntries(n) ==
    {row \in Range(run.pre.ledger) : row.version \in Highest(run.pre.ledger, n)}

\* RollbackSteps(n), n >= 1, ran while the file of each of its first n
\* entries could be read and split
StepsWithFiles ==
    /\ run.op = "RollbackSteps"
    /\ run.steps >= 1
    /\ run.pre.ledgerExists
    /\ \A row \in FirstEntries(run.steps) : RowLoadable(backend, files, row)

\* C30: RollbackSteps(n) loads the files of the first n entries of the
\* descending applied set only; a missing or malformed file of an applied
\* version that is not among them does not make it fail.
C30_OnlyFirstEntriesLoaded ==
    StepsWithFiles => run.err # "file"

\* ------------------------------------------------------------------------
\* C31
\* ------------------------------------------------------------------------

\* the database as it was before the run
WorldBefore ==
    [World EXCEPT !.ledgerExists = run.pre.ledgerExists,
                  !.ledger = run.pre.ledger,
                  !.schema = run.pre.schema]

\* RollbackLast ran on a ledger with rows and no call to the database failed
RollbackLastRan ==
    /\ run.op = "RollbackLast"
    /\ run.pre.ledger # <<>>
    /\ run.err \notin {"ledger", "exec", "tx"}

\* the down statements a run sent, in order
DownSent(log) == SelectSeq(log, LAMBDA e : e.ev = "exec" /\ e.dir = "down")

\* C31: with at least one migration applied, RollbackLast and
\* RollbackSteps(1) are equivalent: the same version, the same down-script,
\* the same ledger, and both succeed or both fail, also when a file is
\* missing or another file is malformed.
C31_RollbackLastIsStepsOne ==
    RollbackLastRan =>
        \A order \in SortDescending(run.pre.ledger) :
            LET one == RollbackSteps(backend, WorldBefore, 0, 1, files, order)
            IN /\ (one.err = "ok") <=> (run.err = "ok")
               /\ one.ledger = ledger
               /\ one.schema = schema
               /\ DownSent(one.log) = DownSent(run.log)

\* ------------------------------------------------------------------------
\* C32
\* ------------------------------------------------------------------------

\* Migrate returned no error
Migrated == run.op = "Migrate" /\ run.err = "ok"

\* the file name built from what the ledger keeps of file f
Rebuilt(f) ==
    RowFileName(backend, [version |-> parseFile(backend, f).mig.Version,
                          name |-> parseFile(backend, f).mig.Name])

\* C32: for every file that load accepts and Migrate applies, the name
\* rebuilt from the ledger's version and name is the name of the file, and
\* RollbackSteps finds the file of every ledger row, also for a leading
\* token that is not numeric or has leading zeros.
C32_FileNameRoundTrip ==
    Migrated =>
        /\ \A f \in LoadedFiles : Rebuilt(f) = f.fname
        /\ \A i \in 1..Len(ledger) : RowLoadable(backend, files, ledger[i])

\* ------------------------------------------------------------------------
\* C33
\* ------------------------------------------------------------------------

\* C33: RollbackLast says that there is nothing to roll back only when the
\* ledger is empty; with at least one entry, an entry of version 0 as well,
\* it rolls an entry back or returns an error.
C33_NothingToRollbackOnlyWhenEmpty ==
    (run.op = "RollbackLast" /\ run.pre.ledger # <<>>) =>
        /\ Events("nomigrations") = <<>>
        /\ \/ run.err # "ok"
           \/ /\ Events("rolledback") # <<>>
              /\ Len(ledger) < Len(run.pre.ledger)

\* ------------------------------------------------------------------------
\* C34
\* ------------------------------------------------------------------------

\* the engine that loads the files of the package
Engine == IF backend = LegacyPostgres THEN "postgres" ELSE backend

VersionIn(f) == parseFile(Engine, f).mig.Version

\* CreateMigration returned no error and wrote a file
CreatedNow == run.op = "CreateMigration" /\ run.err = "ok" /\ files # run.dir

\* C34: the versions of the files CreateMigration has written are distinct,
\* and a successful CreateMigration gives a version above that of every
\* file that was there, also when two are created in the same second.
C34_CreatedVersionsIncrease ==
    /\ \A f, g \in files : f # g => VersionIn(f) # VersionIn(g)
    /\ CreatedNow =>
          \A f \in files \ run.dir : \A g \in run.dir : VLess(VersionIn(g), VersionIn(f))

\* ------------------------------------------------------------------------
\* C35
\* ------------------------------------------------------------------------

\* the loaded files of version v
FilesOfVersion(v) == {f \in LoadedFiles : VersionOfFile(f) = v}

\* the first Migrate on a database: no ledger table before it, so that no
\* up-script was executed or reversed before and upDone holds exactly the
\* files whose up-script this run executed
FirstMigrated == Migrated /\ ~run.pre.ledgerExists /\ run.pre.schema = {}

\* C35: after Migrate has returned no error, the up-script of every loaded
\* file has been executed and the file is recorded in the ledger; a file is
\* passed over as applied only when its own up-script was executed before,
\* also when two files share a version. Stated for the first Migrate on a
\* database.
C35_EveryFileApplied ==
    FirstMigrated =>
        /\ \A f \in LoadedFiles :
              /\ f.fname \in upDone
              /\ HasVersion(ledger, VersionOfFile(f))
        /\ \A i \in 1..Len(run.log) :
              run.log[i].ev = "skipped" =>
                  \A f \in FilesOfVersion(run.log[i].ver) : f.fname \in upDone

\* ------------------------------------------------------------------------
\* C36
\* ------------------------------------------------------------------------

\* C36: a file written by a package's CreateMigration is found and parsed
\* without error by the next load of the same package, under the name it
\* was created with.
C36_CreatedFileIsLoaded ==
    CreatedNow =>
        \A ld \in loadCreated(backend, files) :
            /\ ld.err = "ok"
            /\ \A f \in files \ run.dir :
                  \E i \in 1..Len(ld.migs) :
                      /\ ld.migs[i].fname = f.fname
                      /\ Str(ld.migs[i].Name) = run.msg

\* ------------------------------------------------------------------------
\* C37
\* ------------------------------------------------------------------------

\* CreateMigration ran while the sub-directory did not exist
CreatedIntoMissing == run.op = "CreateMigration" /\ ~run.subdir

\* C37: CreateMigration into a migration path whose sub-directory sql or
\* cql does not exist yet makes the directory and writes the file, with
\* no error.
C37_FirstMigrationCreated ==
    CreatedIntoMissing =>
        /\ run.err = "ok"
        /\ subdir
        /\ \E f \in files : Str(parseFile(Engine, f).mig.Name) = run.msg

\* ------------------------------------------------------------------------
\* C38
\* ------------------------------------------------------------------------

SaveRun == run.op = "SaveConfig"

\* what LoadConfig returns for each backend type from file
ReadBack(file, configType) == LoadConfig(file, configType, configType)

\* C38: SaveConfig for one backend type replaces that backend's section
\* only: the sections of the other two types, read back by LoadConfig, are
\* as before; an unknown config type is rejected and the file not written.
C38_SaveConfigKeepsOtherSections ==
    SaveRun =>
        /\ \A t \in ConfigTypes \ {run.msg} : ReadBack(conf, t) = ReadBack(run.conf, t)
        /\ (run.err = "ok" /\ run.config.kind = run.msg) =>
              ReadBack(conf, run.msg) = [err |-> "ok", config |-> run.config]
        /\ run.msg \notin ConfigTypes => (run.err # "ok" /\ conf = run.conf)
        /\ run.err # "ok" => conf = run.conf

\* a section is saved into a file that holds the sections of the two other
\* types, and they are read back as they were
C38_Witness ==
    /\ SaveRun
    /\ run.err = "ok"
    /\ run.config.kind = run.msg
    /\ Unmarshal(run.conf.data)[SectionOf(run.msg)] # run.config
    /\ \A t \in ConfigTypes \ {run.msg} :
          /\ Unmarshal(run.conf.data)[SectionOf(t)] # Nil
          /\ ReadBack(conf, t).config = Unmarshal(run.conf.data)[SectionOf(t)]

====
